---------------------------- MODULE Spec2Model ----------------------------
(***************************************************************************)
(* Model of the continuous speech-recognition session of SupportAgent      *)
(* (src/support_agent.py) and of the recording handlers of the Streamlit   *)
(* page that drives it (src/app.py), followed by a model of the           *)
(* conversation and of the knowledge base (src/simple_rag.py).             *)
(*                                                                         *)
(* Texts are sequences of one-character strings.  The recognizer's events  *)
(* run on the speech SDK's thread and interleave with the caller's thread  *)
(* statement by statement: no lock protects the session fields.            *)
(***************************************************************************)
EXTENDS Integers, Sequences, FiniteSets, TLC

\* Number of recognizers the caller may construct (calls of
\* start_continuous_recognition that reach the constructor).
MaxSessions == 2

\* Texts of the finalized-utterance events: blank, with surrounding
\* whitespace, and one that contains another.
FinalTexts == { <<" ">>, <<" ", "a">>, <<"a", "b">> }

\* Texts of the in-progress-hypothesis events: one that differs from a
\* final text only in case and whitespace, one found in no final text alone.
HypothesisTexts == { <<" ", "A">>, <<"b">> }

EmptyText == <<>>

---------------------------------------------------------------------------
\* str.strip(), `in` on strings, str.lower()

\* The whitespace characters of the texts of the model.
Whitespace == { " ", "\n" }

RECURSIVE LStrip(_)
LStrip(s) == IF s = <<>> THEN s
             ELSE IF Head(s) \in Whitespace THEN LStrip(Tail(s)) ELSE s

RECURSIVE RStrip(_)
RStrip(s) == IF s = <<>> THEN s
             ELSE IF s[Len(s)] \in Whitespace
                  THEN RStrip(SubSeq(s, 1, Len(s) - 1))
                  ELSE s

Strip(s) == RStrip(LStrip(s))

\* str.lower() on the letters of the model
LowerChar(c) == IF c = "A" THEN "a" ELSE IF c = "B" THEN "b" ELSE c

Lower(s) == IF s = <<>> THEN s ELSE [i \in 1..Len(s) |-> LowerChar(s[i])]

\* needle in hay
Contains(hay, needle) ==
    \E i \in 0..Len(hay) :
        /\ i + Len(needle) <= Len(hay)
        /\ SubSeq(hay, i + 1, i + Len(needle)) = needle

\* Number of (possibly overlapping) places where needle occurs in hay.
Occurrences(hay, needle) ==
    Cardinality({ i \in 0..Len(hay) :
                    /\ i + Len(needle) <= Len(hay)
                    /\ SubSeq(hay, i + 1, i + Len(needle)) = needle })

\* The non-blank texts an event can contribute to recognized_text.
Utterances == { Strip(t) : t \in FinalTexts } \ { EmptyText }

---------------------------------------------------------------------------
VARIABLES
    \* SupportAgent fields
    recognized_text,    \* self.recognized_text
    partial_text,       \* self.partial_text
    is_recognizing,     \* self.is_recognizing
    recognition_done,   \* self.recognition_done (threading.Event) is set
    \* speech SDK
    rec,                \* state of each SpeechRecognizer constructed
    nrec,               \* number of recognizers constructed
    evt,                \* the event whose callback is executing, or NoEvt
    loaded,             \* recognized_cb: value read for the += at line 82
    \* caller thread
    pc,                 \* position of the caller
    handle,             \* argument `recognizer` of the last stop that has
                        \* not returned normally
    result,             \* stop in progress: local `result`
    requested,          \* stop in progress: line 120 was executed
    timedout,           \* stop in progress: the wait of line 121 timed out
    exception,          \* the call that last raised to the caller, if the
                        \* caller's last call did: "none", "start", "stop"
    caller,             \* who made the call in progress: "api" or "app"
    \* Streamlit session state (src/app.py)
    is_recording,       \* st.session_state.is_recording
    recognizer,         \* st.session_state.recognizer (NoHandle for None)
    elapsed,            \* time.time() - st.session_state.recording_start_time
                        \* in whole time units; NoTime when the start time
                        \* is None
    \* history of recognized_cb since recognized_text was last emptied
    delivered,          \* utterance -> finalized events handled (0, 1, 2+)
    appended,           \* utterance -> times line 82 stored it (0, 1, 2+)
    \* conversation and knowledge base
    conversation_history,   \* self.conversation_history
    system_prompt,          \* self.system_prompt
    use_rag,                \* self.use_rag
    documents,              \* self.rag_system.documents
    llm,                    \* self.rag_system.llm ("None" or "client")
    last,                   \* the last call of the conversation or knowledge
                            \* base interface and what its caller observed
    \* the vector store knowledge base (src/rag_system.py)
    vectorstore,            \* self.vectorstore ("None" or "Chroma")
    qa_chain,               \* self.qa_chain ("None" or "RetrievalQA")
    persisted,              \* os.path.exists(self.persist_directory)
    collection,             \* the documents of the collection of the store
    \* the conversation shown by the page (src/app.py)
    session_messages,       \* st.session_state.messages: (role, content)
    \* history of the recording handlers of the page
    stop_calls,             \* recognizer -> calls of
                            \* stop_continuous_recognition made by the
                            \* handlers (0, 1, 2+)
    stop_texts,             \* recognizer -> the texts those calls returned
    respond_texts           \* recognizer -> the texts the handlers gave to
                            \* generate_response

\* The fields of the conversation and of the knowledge base.
chatVars == << conversation_history, system_prompt, use_rag, documents, llm,
               last >>

\* The fields of the recognition session and of the recording page.
speechVars == << recognized_text, partial_text, is_recognizing,
                 recognition_done, rec, nrec, evt, loaded, pc, handle,
                 result, requested, timedout, exception, caller,
                 is_recording, recognizer, elapsed, delivered, appended >>

\* The fields of the vector store knowledge base.
vectorVars == << vectorstore, qa_chain, persisted, collection >>

\* The conversation of the page and the history of its recording handlers.
pageVars == << session_messages, stop_calls, stop_texts, respond_texts >>

vars == << speechVars, chatVars, vectorVars, pageVars >>


NoEvt == [kind |-> "none"]
NoHandle == 0

\* st.session_state.recording_start_time is None
NoTime == -1

\* The elapsed time past which the page stops the recording (app.py line 392).
AutoStopCeiling == 10

\* Callers that are handlers of the page: the buttons ("app") and the
\* auto-stop block ("auto"); "api" is any other caller of the class.
AppCallers == { "app", "auto" }

Recognizers == 1..MaxSessions

\* self.system_prompt as set by the constructor
DefaultPrompt == "You are a helpful AI call agent."

\* No call of the conversation or knowledge base interface was made yet.
NoCall == [op |-> "none"]

ZeroCount == [u \in Utterances |-> 0]

Bump(f, u) == [f EXCEPT ![u] = IF @ >= 2 THEN 2 ELSE @ + 1]

Init ==
    /\ recognized_text = EmptyText
    /\ partial_text = EmptyText
    /\ is_recognizing = FALSE
    /\ recognition_done = FALSE
    /\ rec = [r \in Recognizers |-> "unused"]
    /\ nrec = 0
    /\ evt = NoEvt
    /\ loaded = EmptyText
    /\ pc = "idle"
    /\ handle = NoHandle
    /\ result = EmptyText
    /\ requested = FALSE
    /\ timedout = FALSE
    /\ exception = "none"
    /\ caller = "api"
    /\ is_recording = FALSE
    /\ recognizer = NoHandle
    /\ elapsed = NoTime
    /\ delivered = ZeroCount
    /\ appended = ZeroCount
    /\ conversation_history = << >>
    /\ system_prompt = << DefaultPrompt >>
    /\ use_rag = FALSE
    /\ documents = << >>
    /\ llm = "None"
    /\ last = NoCall
    /\ session_messages = << >>
    /\ stop_calls = [r \in Recognizers |-> 0]
    /\ stop_texts = [r \in Recognizers |-> << >>]
    /\ respond_texts = [r \in Recognizers |-> << >>]
    /\ vectorstore = "None"
    /\ qa_chain = "None"
    /\ persisted = FALSE
    /\ collection = << >>

---------------------------------------------------------------------------
\* The speech SDK raises an event of recognizer r: its connected callback
\* starts to run on the SDK's thread.  One callback runs at a time.

Live(r) == rec[r] \in {"running", "stopping"}

RaiseRecognized(r, reason, t) ==
    /\ evt = NoEvt
    /\ Live(r)
    /\ evt' = [kind |-> "recognized", reason |-> reason, text |-> t,
               src |-> r, at |-> "entry"]
    /\ UNCHANGED << recognized_text, partial_text, is_recognizing,
                    recognition_done, rec, nrec, loaded, pc, result,
                    requested, timedout, caller, is_recording, recognizer,
                    delivered, appended, exception, handle >>
    /\ UNCHANGED << elapsed, chatVars, vectorVars, pageVars >>

RaiseRecognizing(r, t) ==
    /\ evt = NoEvt
    /\ Live(r)
    /\ evt' = [kind |-> "recognizing", reason |-> "RecognizingSpeech",
               text |-> t, src |-> r, at |-> "entry"]
    /\ UNCHANGED << recognized_text, partial_text, is_recognizing,
                    recognition_done, rec, nrec, loaded, pc, result,
                    requested, timedout, caller, is_recording, recognizer,
                    delivered, appended, exception, handle >>
    /\ UNCHANGED << elapsed, chatVars, vectorVars, pageVars >>

\* A cancellation (transport failure, end of stream) ends the recognition
\* of r: no further event of r follows.
RaiseCanceled(r) ==
    /\ evt = NoEvt
    /\ Live(r)
    /\ rec' = [rec EXCEPT ![r] = "stopped"]
    /\ evt' = [kind |-> "canceled", reason |-> "Canceled", text |-> EmptyText,
               src |-> r, at |-> "entry"]
    /\ UNCHANGED << recognized_text, partial_text, is_recognizing,
                    recognition_done, nrec, loaded, pc, result, requested,
                    timedout, caller, is_recording, recognizer, delivered,
                    appended, exception, handle >>
    /\ UNCHANGED << elapsed, chatVars, vectorVars, pageVars >>

\* The session of r ends after a stop request.
RaiseSessionStopped(r) ==
    /\ evt = NoEvt
    /\ rec[r] = "stopping"
    /\ rec' = [rec EXCEPT ![r] = "stopped"]
    /\ evt' = [kind |-> "session_stopped", reason |-> "SessionStopped",
               text |-> EmptyText, src |-> r, at |-> "entry"]
    /\ UNCHANGED << recognized_text, partial_text, is_recognizing,
                    recognition_done, nrec, loaded, pc, result, requested,
                    timedout, caller, is_recording, recognizer, delivered,
                    appended, exception, handle >>
    /\ UNCHANGED << elapsed, chatVars, vectorVars, pageVars >>

---------------------------------------------------------------------------
\* The callbacks of start_continuous_recognition.

\* recognized_cb, lines 78-82 up to the read of self.recognized_text for +=
new_text == Strip(evt.text)

\* recognized_cb without the check of line 81 for text already present
IsNewTextNoDedup ==
    /\ evt.reason = "RecognizedSpeech"
    /\ new_text # EmptyText

IsNewText ==
    /\ evt.reason = "RecognizedSpeech"
    /\ new_text # EmptyText
    /\ ~Contains(recognized_text, new_text)

recognized_cb_check ==
    /\ evt # NoEvt
    /\ evt.kind = "recognized"
    /\ evt.at = "entry"
    /\ IF IsNewText
       THEN /\ loaded' = recognized_text
            /\ evt' = [evt EXCEPT !.at = "store"]
            /\ UNCHANGED delivered
       ELSE /\ evt' = NoEvt
            /\ delivered' = IF /\ evt.reason = "RecognizedSpeech"
                               /\ new_text # EmptyText
                            THEN Bump(delivered, new_text) ELSE delivered
            /\ UNCHANGED loaded
    /\ UNCHANGED << recognized_text, partial_text, is_recognizing,
                    recognition_done, rec, nrec, pc, result, requested,
                    timedout, caller, is_recording, recognizer, appended,
                    exception, handle >>
    /\ UNCHANGED << elapsed, chatVars, vectorVars, pageVars >>

\* recognized_cb, line 82: the store of self.recognized_text += new_text + " "
Appended(old, text) == old \o text \o <<" ">>

recognized_cb_store ==
    /\ evt # NoEvt
    /\ evt.kind = "recognized"
    /\ evt.at = "store"
    /\ recognized_text' = Appended(loaded, new_text)
    /\ loaded' = EmptyText
    /\ evt' = NoEvt
    /\ delivered' = Bump(delivered, new_text)
    /\ appended' = Bump(appended, new_text)
    /\ UNCHANGED << partial_text, is_recognizing, recognition_done, rec,
                    nrec, pc, result, requested, timedout, caller,
                    is_recording, recognizer, exception, handle >>
    /\ UNCHANGED << elapsed, chatVars, vectorVars, pageVars >>

\* recognizing_cb appending the hypothesis to the previous one
recognizing_cb_appending ==
    /\ evt # NoEvt
    /\ evt.kind = "recognizing"
    /\ partial_text' = IF evt.reason = "RecognizingSpeech"
                       THEN partial_text \o evt.text ELSE partial_text
    /\ evt' = NoEvt
    /\ UNCHANGED << recognized_text, is_recognizing, recognition_done, rec,
                    nrec, loaded, pc, handle, result, requested, timedout,
                    exception, caller, is_recording, recognizer, delivered,
                    appended >>
    /\ UNCHANGED << elapsed, chatVars, vectorVars, pageVars >>

\* recognizing_cb, lines 85-91
recognizing_cb ==
    /\ evt # NoEvt
    /\ evt.kind = "recognizing"
    /\ partial_text' = IF evt.reason = "RecognizingSpeech"
                       THEN evt.text ELSE partial_text
    /\ evt' = NoEvt
    /\ UNCHANGED << recognized_text, is_recognizing, recognition_done, rec,
                    nrec, loaded, pc, result, requested, timedout, caller,
                    is_recording, recognizer, delivered, appended,
                    exception, handle >>
    /\ UNCHANGED << elapsed, chatVars, vectorVars, pageVars >>

\* canceled_cb without recognition_done.set()
canceled_cb_no_signal ==
    /\ evt # NoEvt
    /\ evt.kind = "canceled"
    /\ is_recognizing' = FALSE
    /\ evt' = NoEvt
    /\ UNCHANGED << recognized_text, partial_text, recognition_done, rec,
                    nrec, loaded, pc, handle, result, requested, timedout,
                    exception, caller, is_recording, recognizer, delivered,
                    appended >>
    /\ UNCHANGED << elapsed, chatVars, vectorVars, pageVars >>

\* canceled_cb, lines 93-97
canceled_cb ==
    /\ evt # NoEvt
    /\ evt.kind = "canceled"
    /\ is_recognizing' = FALSE
    /\ recognition_done' = TRUE
    /\ evt' = NoEvt
    /\ UNCHANGED << recognized_text, partial_text, rec, nrec, loaded, pc,
                    result, requested, timedout, caller, is_recording,
                    recognizer, delivered, appended, exception, handle >>
    /\ UNCHANGED << elapsed, chatVars, vectorVars, pageVars >>

\* stopped_cb, lines 99-103
stopped_cb ==
    /\ evt # NoEvt
    /\ evt.kind = "session_stopped"
    /\ is_recognizing' = FALSE
    /\ recognition_done' = TRUE
    /\ evt' = NoEvt
    /\ UNCHANGED << recognized_text, partial_text, rec, nrec, loaded, pc,
                    result, requested, timedout, caller, is_recording,
                    recognizer, delivered, appended, exception, handle >>
    /\ UNCHANGED << elapsed, chatVars, vectorVars, pageVars >>

---------------------------------------------------------------------------
\* start_continuous_recognition, called by c ("api": any caller of the
\* class; "app": the Start Recording handler).

\* lines 56-58
StartReset(c) ==
    /\ pc = "idle"
    /\ nrec < MaxSessions
    /\ caller' = c
    /\ recognized_text' = EmptyText
    /\ is_recognizing' = TRUE
    /\ recognition_done' = FALSE
    /\ delivered' = ZeroCount
    /\ appended' = ZeroCount
    /\ exception' = "none"
    /\ handle' = NoHandle
    /\ pc' = "start_construct"
    /\ UNCHANGED << partial_text, rec, nrec, evt, loaded, result, requested,
                    timedout, is_recording, recognizer >>
    /\ UNCHANGED << elapsed, chatVars, vectorVars, pageVars >>

\* lines 61-115 without an exception; app.py lines 332-335 for the app
StartReturn ==
    /\ pc = "start_construct"
    /\ nrec' = nrec + 1
    /\ rec' = [rec EXCEPT ![nrec + 1] = "running"]
    /\ pc' = "idle"
    /\ IF caller \in AppCallers
       THEN /\ recognizer' = nrec + 1
            /\ is_recording' = TRUE
            /\ elapsed' = 0
       ELSE UNCHANGED << recognizer, is_recording, elapsed >>
    /\ UNCHANGED << recognized_text, partial_text, is_recognizing,
                    recognition_done, evt, loaded, result, requested,
                    timedout, caller, delivered, appended, exception,
                    handle >>
    /\ UNCHANGED << chatVars, vectorVars, pageVars >>

\* lines 61-112 raise (set_property, AudioConfig, SpeechRecognizer or the
\* SDK's start_continuous_recognition); app.py lines 336-337 for the app
StartRaise ==
    /\ pc = "start_construct"
    /\ exception' = "start"
    /\ pc' = "idle"
    /\ UNCHANGED << recognized_text, partial_text, is_recognizing,
                    recognition_done, rec, nrec, evt, loaded, result,
                    requested, timedout, caller, is_recording, recognizer,
                    delivered, appended, handle >>
    /\ UNCHANGED << elapsed, chatVars, vectorVars, pageVars >>

---------------------------------------------------------------------------
\* stop_continuous_recognition(h), called by c.

\* line 119 without the test of self.is_recognizing
StopGuardHandleOnly(h) == h # NoHandle

StopGuard(h) == h # NoHandle /\ is_recognizing

\* The calls of stop_continuous_recognition the handlers of the page made
\* (app.py lines 343 and 394), counted by the recognizer they were given.
CountStop(c, h) ==
    IF c \in AppCallers /\ h \in Recognizers
    THEN [stop_calls EXCEPT ![h] = IF @ >= 2 THEN 2 ELSE @ + 1]
    ELSE stop_calls

\* line 119 false
StopSkip(c, h) ==
    /\ pc = "idle"
    /\ ~StopGuard(h)
    /\ caller' = c
    /\ exception' = "none"
    /\ handle' = h
    /\ pc' = "stop_read"
    /\ UNCHANGED << recognized_text, partial_text, is_recognizing,
                    recognition_done, rec, nrec, evt, loaded, result,
                    requested, timedout, is_recording, recognizer,
                    delivered, appended >>
    /\ UNCHANGED << elapsed, chatVars, vectorVars >>
    /\ stop_calls' = CountStop(c, h)
    /\ UNCHANGED << session_messages, stop_texts, respond_texts >>

\* lines 119-120: the SDK accepts the stop request
StopRequest(c, h) ==
    /\ pc = "idle"
    /\ StopGuard(h)
    /\ caller' = c
    /\ requested' = TRUE
    /\ rec' = [rec EXCEPT ![h] = IF @ = "running" THEN "stopping" ELSE @]
    /\ exception' = "none"
    /\ handle' = h
    /\ pc' = "stop_wait"
    /\ UNCHANGED << recognized_text, partial_text, is_recognizing,
                    recognition_done, nrec, evt, loaded, result, timedout,
                    is_recording, recognizer, delivered, appended >>
    /\ UNCHANGED << elapsed, chatVars, vectorVars >>
    /\ stop_calls' = CountStop(c, h)
    /\ UNCHANGED << session_messages, stop_texts, respond_texts >>

\* lines 119-120: recognizer.stop_continuous_recognition() raises, and the
\* exception leaves stop_continuous_recognition; app.py lines 382-387
StopRequestRaise(c, h) ==
    /\ pc = "idle"
    /\ StopGuard(h)
    /\ caller' = c
    /\ exception' = "stop"
    /\ handle' = h
    /\ pc' = "idle"
    /\ IF c \in AppCallers
       THEN /\ is_recording' = FALSE
            /\ recognizer' = NoHandle
            /\ elapsed' = NoTime
       ELSE UNCHANGED << is_recording, recognizer, elapsed >>
    /\ UNCHANGED << recognized_text, partial_text, is_recognizing,
                    recognition_done, rec, nrec, evt, loaded, result,
                    requested, timedout, delivered, appended >>
    /\ UNCHANGED << chatVars, vectorVars >>
    /\ stop_calls' = CountStop(c, h)
    /\ UNCHANGED << session_messages, stop_texts, respond_texts >>

\* line 121: the event is set
StopWaitDone ==
    /\ pc = "stop_wait"
    /\ recognition_done
    /\ pc' = "stop_read"
    /\ UNCHANGED << recognized_text, partial_text, is_recognizing,
                    recognition_done, rec, nrec, evt, loaded, result,
                    requested, timedout, caller, is_recording, recognizer,
                    delivered, appended, exception, handle >>
    /\ UNCHANGED << elapsed, chatVars, vectorVars, pageVars >>

\* line 121 without timeout=2: the wait ends only when the event is set
StopWaitNoTimeout ==
    /\ pc = "stop_wait"
    /\ FALSE
    /\ UNCHANGED vars

\* line 121: the timeout expires first
StopWaitTimeout ==
    /\ pc = "stop_wait"
    /\ ~recognition_done
    /\ timedout' = TRUE
    /\ pc' = "stop_read"
    /\ UNCHANGED << recognized_text, partial_text, is_recognizing,
                    recognition_done, rec, nrec, evt, loaded, result,
                    requested, caller, is_recording, recognizer, delivered,
                    appended, exception, handle >>
    /\ UNCHANGED << elapsed, chatVars, vectorVars, pageVars >>

\* line 123
StopRead ==
    /\ pc = "stop_read"
    /\ result' = Strip(recognized_text)
    /\ pc' = "stop_clear_final"
    /\ UNCHANGED << recognized_text, partial_text, is_recognizing,
                    recognition_done, rec, nrec, evt, loaded, requested,
                    timedout, caller, is_recording, recognizer, delivered,
                    appended, exception, handle >>
    /\ UNCHANGED << elapsed, chatVars, vectorVars, pageVars >>

\* line 124
StopClearFinal ==
    /\ pc = "stop_clear_final"
    /\ recognized_text' = EmptyText
    /\ delivered' = ZeroCount
    /\ appended' = ZeroCount
    /\ pc' = "stop_clear_partial"
    /\ UNCHANGED << partial_text, is_recognizing, recognition_done, rec,
                    nrec, evt, loaded, result, requested, timedout, caller,
                    is_recording, recognizer, exception, handle >>
    /\ UNCHANGED << elapsed, chatVars, vectorVars, pageVars >>

\* lines 125-126; app.py lines 345-348 for the app
StopReturn ==
    /\ pc = "stop_clear_partial"
    /\ partial_text' = EmptyText
    /\ handle' = NoHandle
    /\ pc' = "idle"
    /\ result' = EmptyText
    /\ requested' = FALSE
    /\ timedout' = FALSE
    /\ IF caller \in AppCallers
       THEN /\ is_recording' = FALSE
            /\ recognizer' = NoHandle
            /\ elapsed' = NoTime
       ELSE UNCHANGED << is_recording, recognizer, elapsed >>
    /\ UNCHANGED << recognized_text, is_recognizing, recognition_done, rec,
                    nrec, evt, loaded, caller, delivered, appended,
                    exception >>
    /\ UNCHANGED << chatVars, vectorVars, pageVars >>

---------------------------------------------------------------------------
\* get_current_transcription, called by c.

\* lines 134-141 with a case-sensitive test of containment
CurrentTranscriptionCaseSensitive(final, partial) ==
    IF final # EmptyText /\ partial # EmptyText /\ ~Contains(final, partial)
    THEN final \o <<" ">> \o partial
    ELSE IF final # EmptyText THEN final
    ELSE IF partial # EmptyText THEN partial
    ELSE EmptyText

\* lines 134-141, on the trimmed texts read at lines 130 and 131
CurrentTranscription(final, partial) ==
    IF /\ final # EmptyText
       /\ partial # EmptyText
       /\ ~Contains(Lower(final), Lower(partial))
    THEN final \o <<" ">> \o partial
    ELSE IF final # EmptyText THEN final
    ELSE IF partial # EmptyText THEN partial
    ELSE EmptyText

\* line 130: final = self.recognized_text.strip()
TranscriptReadFinal(c) ==
    /\ pc = "idle"
    /\ caller' = c
    /\ exception' = "none"
    /\ result' = Strip(recognized_text)
    /\ pc' = "transcript_partial"
    /\ UNCHANGED << recognized_text, partial_text, is_recognizing,
                    recognition_done, rec, nrec, evt, loaded, handle,
                    requested, timedout, is_recording, recognizer, elapsed,
                    delivered, appended >>
    /\ UNCHANGED << chatVars, vectorVars, pageVars >>

\* lines 131-141: partial = self.partial_text.strip() and the value returned
TranscriptReadPartial ==
    /\ pc = "transcript_partial"
    /\ result' = CurrentTranscription(result, Strip(partial_text))
    /\ pc' = "transcript_return"
    /\ UNCHANGED << recognized_text, partial_text, is_recognizing,
                    recognition_done, rec, nrec, evt, loaded, handle,
                    requested, timedout, exception, caller, is_recording,
                    recognizer, elapsed, delivered, appended >>
    /\ UNCHANGED << chatVars, vectorVars, pageVars >>

\* the caller has the value; app.py lines 319-323 display it
TranscriptReturn ==
    /\ pc = "transcript_return"
    /\ result' = EmptyText
    /\ pc' = "idle"
    /\ UNCHANGED << recognized_text, partial_text, is_recognizing,
                    recognition_done, rec, nrec, evt, loaded, handle,
                    requested, timedout, exception, caller, is_recording,
                    recognizer, elapsed, delivered, appended >>
    /\ UNCHANGED << chatVars, vectorVars, pageVars >>

---------------------------------------------------------------------------
\* The recognizer's thread and the statements of a call in progress.

Sdk ==
    \/ \E r \in Recognizers, t \in FinalTexts :
            RaiseRecognized(r, "RecognizedSpeech", t)
    \/ \E r \in Recognizers : RaiseRecognized(r, "NoMatch", EmptyText)
    \/ \E r \in Recognizers, t \in HypothesisTexts : RaiseRecognizing(r, t)
    \/ \E r \in Recognizers : RaiseCanceled(r)
    \/ \E r \in Recognizers : RaiseSessionStopped(r)

Callbacks ==
    \/ recognized_cb_check
    \/ recognized_cb_store
    \/ recognizing_cb
    \/ canceled_cb
    \/ stopped_cb

CallSteps ==
    \/ StartReturn
    \/ StartRaise
    \/ StopWaitDone
    \/ StopWaitTimeout
    \/ StopRead
    \/ StopClearFinal
    \/ StopReturn
    \/ TranscriptReadPartial
    \/ TranscriptReturn

\* Any caller of the class: start and stop in any order, with any handle
\* it was given.
Handles == {NoHandle} \cup (1..nrec)

Next ==
    \/ Sdk
    \/ Callbacks
    \/ CallSteps
    \/ StartReset("api")
    \/ TranscriptReadFinal("api")
    \/ \E h \in Handles : StopSkip("api", h)
    \/ \E h \in Handles : StopRequest("api", h)
    \/ \E h \in Handles : StopRequestRaise("api", h)

Spec == Init /\ [][Next]_vars

\* The Streamlit page: the Start button is enabled while not recording,
\* the Stop button while recording (app.py lines 308-311, 326, 340).
start_button == ~is_recording /\ StartReset("app")

stop_button ==
    /\ is_recording
    /\ \/ StopSkip("app", recognizer)
       \/ StopRequest("app", recognizer)
       \/ StopRequestRaise("app", recognizer)

\* Time passes while the page has a start time.  The page only compares
\* the elapsed time with the ceiling, so the elapsed times told apart are
\* the start (0), the ceiling itself and one unit past it, where the clock
\* stops counting.
Tick ==
    /\ elapsed # NoTime
    /\ elapsed <= AutoStopCeiling
    /\ elapsed' = IF elapsed < AutoStopCeiling THEN AutoStopCeiling
                  ELSE AutoStopCeiling + 1
    /\ UNCHANGED << recognized_text, partial_text, is_recognizing,
                    recognition_done, rec, nrec, evt, loaded, pc, handle,
                    result, requested, timedout, exception, caller,
                    is_recording, recognizer, delivered, appended >>
    /\ UNCHANGED << chatVars, vectorVars, pageVars >>

\* app.py lines 314-323: a run of the page while recording shows the live
\* transcription
live_transcription ==
    /\ is_recording
    /\ elapsed # NoTime
    /\ TranscriptReadFinal("app")

\* app.py lines 390-392 with the test elapsed >= 10
AutoStopDueAtCeiling ==
    /\ is_recording
    /\ elapsed # NoTime
    /\ elapsed >= AutoStopCeiling

\* app.py lines 390-392: the auto-stop block finds the ceiling exceeded
AutoStopDue ==
    /\ is_recording
    /\ elapsed # NoTime
    /\ elapsed > AutoStopCeiling

\* app.py lines 393-395: the auto-stop block calls stop; otherwise (lines
\* 439-442) the page sleeps and runs again, which changes nothing
auto_stop ==
    /\ AutoStopDue
    /\ \/ StopSkip("auto", recognizer)
       \/ StopRequest("auto", recognizer)
       \/ StopRequestRaise("auto", recognizer)

NextApp ==
    \/ Sdk
    \/ Callbacks
    \/ CallSteps
    \/ start_button
    \/ stop_button
    \/ live_transcription
    \/ auto_stop
    \/ Tick

SpecApp == Init /\ [][NextApp]_vars

\* The caller's thread always gets to run, and a wait with a timeout ends:
\* a call in progress takes its next step.
FairSpec == Spec /\ WF_vars(CallSteps)

\* The page while recording: its calls take their next step, time passes,
\* and the page runs again every 0.3 s (app.py lines 439-442), each run
\* reaching the auto-stop block after it has shown the transcription.
FairApp ==
    /\ SpecApp
    /\ WF_vars(CallSteps)
    /\ WF_vars(Tick)
    /\ SF_vars(auto_stop)

---------------------------------------------------------------------------
\* Steps of the caller, recognised by their effect.

StopCalled ==
    /\ pc = "idle"
    /\ \/ pc' \in {"stop_read", "stop_wait"}
       \/ exception # "stop" /\ exception' = "stop"

StopReturned == pc = "stop_clear_partial" /\ pc' = "idle"

StartCalled == pc = "idle" /\ pc' = "start_construct"

CallbackReturned(kinds) == evt.kind \in kinds /\ evt' = NoEvt

---------------------------------------------------------------------------
\* C1 (as stated): once two finalized-utterance events with the same text
\* have been handled since recognized_text was last emptied, whatever other
\* events came in between, recognized_text contains that text exactly once.
C1_ExactlyOnceAnyEventsBetween ==
    \A u \in Utterances :
        (evt = NoEvt /\ delivered[u] = 2) => Occurrences(recognized_text, u) = 1

\* C1 (amended): a text delivered by a finalized-utterance event since
\* recognized_text was last emptied has been appended at most once (a repeat
\* is absorbed) and recognized_text contains it; it contains it exactly once
\* as long as no other utterance has been delivered since then.
C1_DuplicateAbsorbed ==
    \A u \in Utterances :
        delivered[u] >= 1 =>
            /\ appended[u] <= 1
            /\ Contains(recognized_text, u)
            /\ (\A v \in Utterances \ {u} : delivered[v] = 0) =>
                   Occurrences(recognized_text, u) = 1

\* Two events with the same text were handled in an active session and the
\* second one was absorbed.
C1_Witness ==
    \E u \in Utterances :
        /\ is_recognizing
        /\ delivered[u] = 2
        /\ appended[u] = 1
        /\ recognized_text = Appended(EmptyText, u)

---------------------------------------------------------------------------
\* C2: stop on a session that is not active (no handle, or is_recognizing
\* false: never started, or ended by a terminal event) does not raise, does
\* not ask the recognizer to stop, does not wait and changes no field; it
\* returns the trimmed recognized_text, which is empty when start was never
\* called.
NeverStarted == nrec = 0 /\ ~is_recognizing

C2_StopInactiveIsNoop ==
    /\ [][ (StopCalled /\ ~(handle' # NoHandle /\ is_recognizing)) =>
             /\ pc' = "stop_read"
             /\ exception' = "none"
             /\ ~requested'
             /\ UNCHANGED << rec, recognized_text, partial_text,
                             is_recognizing, recognition_done >> ]_vars
    /\ [][ (pc = "stop_read" /\ pc' # pc /\ ~requested) =>
             /\ pc' = "stop_clear_final"
             /\ result' = Strip(recognized_text) ]_vars
    /\ [][ (StopReturned /\ NeverStarted) => result = EmptyText ]_vars

\* A stop on a session ended by a terminal event, given its handle, is about
\* to return the text accumulated before the event, without having asked
\* the recognizer to stop.
C2_Witness ==
    /\ pc = "stop_clear_partial"
    /\ handle # NoHandle
    /\ ~is_recognizing
    /\ ~requested
    /\ ~timedout
    /\ result = <<"a">>

---------------------------------------------------------------------------
\* C3: stop on an active session returns the trimmed recognized_text it
\* read after the wait, and when it returns recognized_text and partial_text
\* are both empty.
C3_StopReturnsTextAndClears ==
    /\ [][ (pc = "stop_read" /\ pc' # pc /\ requested) =>
             result' = Strip(recognized_text) ]_vars
    /\ [][ (StopReturned /\ requested) =>
             /\ recognized_text' = EmptyText
             /\ partial_text' = EmptyText ]_vars

---------------------------------------------------------------------------
\* C4: a stop that waits always returns, also when the recognizer never
\* raises its terminal event.
C4_StopAlwaysReturns == (pc = "stop_wait") ~> (pc = "idle")

\* The stop is about to return after its wait timed out, the recognizer
\* still not stopped.
C4_Witness ==
    /\ pc = "stop_clear_partial"
    /\ timedout
    /\ rec[handle] = "stopping"
    /\ ~recognition_done
    /\ result # EmptyText

---------------------------------------------------------------------------
\* C5: after stop returns, is_recognizing is false, in every case.
C5_IdleAfterStop == [][ StopReturned => ~is_recognizing' ]_vars

---------------------------------------------------------------------------
\* C6: when the stop request raises, the exception reaches the caller with
\* is_recognizing false and recognized_text and partial_text empty.
C6_FailedStopClearsSession ==
    [][ (exception # "stop" /\ exception' = "stop") =>
          /\ ~is_recognizing'
          /\ recognized_text' = EmptyText
          /\ partial_text' = EmptyText ]_vars

---------------------------------------------------------------------------
\* C7: when start raises, the exception reaches the caller with
\* is_recognizing false.
C7_FailedStartLeavesIdle ==
    [][ (exception # "start" /\ exception' = "start") => ~is_recognizing' ]_vars

---------------------------------------------------------------------------
\* C8: start on a session that is active does not discard recognized_text,
\* and never adds a recognizer while another one is still delivering events.
C8_DoubleStartIsNoop ==
    /\ [][ (StartCalled /\ is_recognizing) =>
             recognized_text' = recognized_text ]_vars
    /\ [][ nrec' = nrec + 1 => \A r \in 1..nrec : ~Live(r) ]_vars

---------------------------------------------------------------------------
\* C9: the callback of a cancellation or session-stopped event always
\* leaves is_recognizing false and the completion event set, and changes
\* neither recognized_text nor partial_text.
C9_TerminalEventEndsSession ==
    [][ CallbackReturned({"canceled", "session_stopped"}) =>
          /\ ~is_recognizing'
          /\ recognition_done'
          /\ recognized_text' = recognized_text
          /\ partial_text' = partial_text ]_vars

\* A terminal event has ended a session; the texts of the session are kept.
C9_Witness ==
    /\ evt = NoEvt
    /\ recognition_done
    /\ ~is_recognizing
    /\ recognized_text = <<"a", " ">>
    /\ partial_text = <<"b">>

---------------------------------------------------------------------------
\* C10: the callback of an in-progress-hypothesis event leaves partial_text
\* equal to the text of the event, and recognized_text and is_recognizing
\* as they were.
C10_HypothesisReplacesPartial ==
    [][ CallbackReturned({"recognizing"}) =>
          /\ partial_text' = evt.text
          /\ recognized_text' = recognized_text
          /\ is_recognizing' = is_recognizing ]_vars

\* A second hypothesis is being delivered over a different one.
C10_Witness ==
    /\ evt.kind = "recognizing"
    /\ partial_text \in HypothesisTexts
    /\ partial_text # evt.text
    /\ recognized_text # EmptyText
    /\ is_recognizing

---------------------------------------------------------------------------
\* Steps of get_current_transcription, recognised by their effect.
TranscriptFinalRead == pc = "idle" /\ pc' = "transcript_partial"

TranscriptComputed == pc = "transcript_partial" /\ pc' = "transcript_return"

sessionFields == << recognized_text, partial_text, is_recognizing,
                    recognition_done >>

\* C11 (as stated, on the trimmed texts): get_current_transcription returns
\* the final text alone when the partial text is empty or is contained in
\* the final text whatever the case of the letters, and in every other case
\* the final text, a separator and the partial text; it changes no field of
\* the session.
C11_FinalThenSeparatorThenPartial ==
    /\ [][ TranscriptFinalRead =>
             /\ result' = Strip(recognized_text)
             /\ UNCHANGED sessionFields ]_vars
    /\ [][ TranscriptComputed =>
             LET final == result
                 partial == Strip(partial_text)
             IN  /\ result' =
                        IF \/ partial = EmptyText
                           \/ Contains(Lower(final), Lower(partial))
                        THEN final
                        ELSE final \o <<" ">> \o partial
                 /\ UNCHANGED sessionFields ]_vars

\* C11 (amended): get_current_transcription trims both texts; it returns
\* the final text alone when the partial text is empty or is contained in
\* the final text whatever the case of the letters, the partial text alone,
\* without a separator, when the final text is empty, and otherwise the
\* final text, one space and the partial text; it changes no field of the
\* session.
C11_CurrentTranscription ==
    /\ [][ TranscriptFinalRead =>
             /\ result' = Strip(recognized_text)
             /\ UNCHANGED sessionFields ]_vars
    /\ [][ TranscriptComputed =>
             LET final == result
                 partial == Strip(partial_text)
             IN  /\ result' =
                        IF \/ partial = EmptyText
                           \/ Contains(Lower(final), Lower(partial))
                        THEN final
                        ELSE IF final = EmptyText
                        THEN partial
                        ELSE final \o <<" ">> \o partial
                 /\ UNCHANGED sessionFields ]_vars

\* get_current_transcription is about to return a final text that holds the
\* hypothesis in another case, without repeating the hypothesis.
C11_Witness ==
    /\ pc = "transcript_return"
    /\ recognized_text = <<"a", " ">>
    /\ partial_text = <<" ", "A">>
    /\ result = <<"a">>

---------------------------------------------------------------------------
\* C12: the page calls stop on its own only once the elapsed time since the
\* start exceeds 10; a recording that the user does not stop is stopped that
\* way; the text this stop returns is the trimmed recognized_text it read,
\* and when the call has returned or raised the page is not recording and
\* has neither a recognizer nor a start time.
AutoStopCalled == StopCalled /\ caller' = "auto"

C12_AutoStop ==
    /\ [][ AutoStopCalled =>
             /\ is_recording
             /\ elapsed # NoTime
             /\ elapsed > 10 ]_vars
    /\ [][ (caller = "auto" /\ pc = "stop_read" /\ pc' # pc) =>
             result' = Strip(recognized_text) ]_vars
    /\ [][ (caller = "auto" /\ pc = "stop_clear_final" /\ pc' # pc) =>
             result' = result ]_vars
    /\ [][ ( \/ StopReturned /\ caller = "auto"
             \/ AutoStopCalled /\ exception' = "stop" ) =>
             /\ ~is_recording'
             /\ recognizer' = NoHandle
             /\ elapsed' = NoTime ]_vars
    /\ is_recording ~> ~is_recording

\* The auto-stop block has called stop 11 time units after the start, and
\* the call is about to return the text of the recording.
C12_Witness ==
    /\ pc = "stop_clear_partial"
    /\ caller = "auto"
    /\ is_recording
    /\ elapsed = 11
    /\ result = <<"a">>

---------------------------------------------------------------------------
\* C13: the accesses to recognized_text, partial_text and is_recognizing are
\* atomic: the store of recognized_cb extends the value that recognized_text
\* has at that moment (nobody wrote it since the callback read it), so it
\* never writes back text that stop has read and cleared, and the clear of
\* stop discards exactly the text stop read.
C13_AccessesAreAtomic ==
    /\ [][ (evt.kind = "recognized" /\ evt.at = "store" /\ evt' = NoEvt) =>
             /\ loaded = recognized_text
             /\ pc \notin {"stop_clear_final", "stop_clear_partial"} ]_vars
    /\ [][ (pc = "stop_clear_final" /\ pc' # pc) =>
             result = Strip(recognized_text) ]_vars

---------------------------------------------------------------------------
(***************************************************************************)
(* The conversation (SupportAgent.generate_response and its settings) and  *)
(* the knowledge base (SimpleRAGSystem, src/simple_rag.py).  These calls   *)
(* run on one thread and touch no field of the recognition session.        *)
(***************************************************************************)

\* Longest conversation_history at which generate_response is still called.
MaxHistory == 4

\* What the user says or types: one text whose word occurs in the files
\* below in another case, one whose word occurs in none.
UserTexts == { <<"A">>, <<"c">> }

\* Replies of the chat completion endpoint.
Replies == { <<"o", "k">>, <<"n", "o">> }

\* Answers of the LLM bound to the knowledge base.
RagAnswers == { "answer from the knowledge base" }

\* Prompts given to set_system_prompt.
Prompts == { << DefaultPrompt >>, << "X" >> }

\* The sources a build can be given: text files (one that cannot be opened,
\* one with blank paragraphs only), a PDF with a blank page, a PDF that
\* cannot be parsed, a Word file, a file of an unsupported type, a URL that
\* answers and a URL whose request fails or times out.
Paths == { "a.txt", "ab.txt", "n.txt", "alpha.txt", "blank.txt",
           "missing.txt", "p.pdf", "bad.pdf", "d.docx", "x.bin",
           "http://up", "http://down" }

\* urlparse(path) has a scheme and a network location
is_url(path) == path \in { "http://up", "http://down" }

\* Path(path).suffix.lower()
Suffix(path) ==
    CASE path \in { "p.pdf", "bad.pdf" } -> ".pdf"
      [] path = "d.docx"                 -> ".docx"
      [] path = "x.bin"                  -> ".bin"
      [] path \in { "http://up", "http://down" } -> ""
      [] OTHER                           -> ".txt"

\* The source can be opened, parsed or fetched.
Readable(path) == path \notin { "missing.txt", "bad.pdf", "http://down" }

\* The text of a text file or of the page of a URL.
FileContent(path) ==
    CASE path = "a.txt"     -> <<"a", "\n", "\n", " ", "b", " ", "\n", "\n", "\n">>
      [] path = "ab.txt"    -> <<"a", " ", "b", ".">>
      [] path = "n.txt"     -> <<"a", "\n", "b", "\n", "\n", "\n", "\n", " ", "c">>
      [] path = "alpha.txt" ->
             <<"A", "l", "p", "h", "a", " ", "b", "e", "t", "a", ".", "\n", "\n">>
                 \o <<"g", "a", "m", "m", "a", " ", "d", "e", "l", "t", "a">>
      [] path = "blank.txt" -> <<" ", "\n", "\n", " ">>
      [] path = "http://up" -> <<"c", " ", "b">>
      [] OTHER              -> << >>

\* The texts of the pages of a PDF, the texts of the paragraphs of a Word
\* file.
Pages(path) == IF path = "p.pdf" THEN << <<" ">>, <<"b">> >> ELSE << >>

Paragraphs(path) == IF path = "d.docx" THEN << <<"a">>, <<"b">> >> ELSE << >>

\* The input lists given to setup_rag_knowledge_base beside a conversation:
\* files only, for which JavaScript rendering changes nothing.
BuildInputs == { << >>,
                 <<"x.bin", "missing.txt">>,
                 <<"blank.txt">>,
                 <<"a.txt">>,
                 <<"x.bin", "ab.txt", "a.txt">> }

---------------------------------------------------------------------------
\* SimpleRAGSystem: loading and splitting.

\* load_text_file, lines 42-50
load_text_file(path) ==
    IF Readable(path)
    THEN << [page_content |-> FileContent(path),
             metadata |-> [source |-> path]] >>
    ELSE << >>

\* load_pdf_file, lines 52-68: one document per page with text, from the
\* page_num-th page (from 0) on
RECURSIVE PdfDocuments(_, _, _)
PdfDocuments(path, pages, page_num) ==
    IF page_num >= Len(pages) THEN << >>
    ELSE LET content == pages[page_num + 1]
             rest == PdfDocuments(path, pages, page_num + 1)
         IN  IF Strip(content) # EmptyText
             THEN << [page_content |-> content,
                      metadata |-> [source |-> path, page |-> page_num]] >>
                      \o rest
             ELSE rest

load_pdf_file(path) ==
    IF Readable(path) THEN PdfDocuments(path, Pages(path), 0) ELSE << >>

\* "\n".join(texts)
RECURSIVE JoinLines(_)
JoinLines(texts) ==
    IF texts = << >> THEN << >>
    ELSE IF Len(texts) = 1 THEN texts[1]
    ELSE texts[1] \o <<"\n">> \o JoinLines(Tail(texts))

\* load_docx_file, lines 70-78
load_docx_file(path) ==
    IF Readable(path)
    THEN << [page_content |-> JoinLines(Paragraphs(path)),
             metadata |-> [source |-> path]] >>
    ELSE << >>

\* What the headless browser does when a URL is loaded with JavaScript
\* rendering: selenium cannot be imported, the driver cannot be started, a
\* step of loading the page or extracting its text raises, closing the
\* driver raises, or nothing fails.  NoBrowser stands for a load without
\* JavaScript rendering.
Browsers == { "ImportError", "driver_error", "page_error", "quit_error",
              "ok" }

NoBrowser == "unused"

BrowsersOf(use_js_rendering) ==
    IF use_js_rendering THEN Browsers ELSE { NoBrowser }

\* The text of the page of a URL after its scripts have run.
RenderedContent(url) == FileContent(url) \o <<" ", "a">>

\* What a loader of a URL gives load_url: the documents it returns or the
\* exception it lets through, and the steps it took.
Fetched(docs, calls) == [raised |-> FALSE, docs |-> docs, calls |-> calls]

FetchRaised(calls) == [raised |-> TRUE, docs |-> << >>, calls |-> calls]

\* _load_url_with_requests, lines 91-141; after earlier steps
load_url_with_requests(url, steps) ==
    IF Readable(url)
    THEN Fetched(<< [page_content |-> FileContent(url),
                     metadata |-> [source |-> url, type |-> "url",
                                   title |-> url, status_code |-> 200,
                                   method |-> "requests",
                                   is_js_app |->
                                       Len(Strip(FileContent(url))) < 100]] >>,
                 Append(steps, "requests.get"))
    ELSE FetchRaised(Append(steps, "requests.get"))

\* _load_url_with_selenium raising what the browser raised
load_url_with_selenium_aborting(url, browser) ==
    CASE browser = "ImportError" -> FetchRaised(<< >>)
      [] browser = "driver_error" -> FetchRaised(<< >>)
      [] browser = "page_error" \/ browser = "quit_error"
             \/ ~Readable(url) ->
             FetchRaised(<< "webdriver.Chrome", "driver.quit" >>)
      [] OTHER ->
             Fetched(<< [page_content |-> RenderedContent(url),
                         metadata |-> [source |-> url, type |-> "url",
                                       title |-> url, status_code |-> 200,
                                       method |-> "selenium",
                                       is_js_app |-> TRUE]] >>,
                     << "webdriver.Chrome", "driver.quit" >>)

\* _load_url_with_selenium, lines 143-248: a failed import (line 240) and a
\* driver that does not start (lines 199-202) go to the plain request; once
\* the driver runs, line 236 closes it on every path, and an exception of
\* the page steps or of the closing goes to the plain request at line 245.
\* A page that cannot be fetched makes the page steps raise.
load_url_with_selenium(url, browser) ==
    CASE browser = "ImportError" -> load_url_with_requests(url, << >>)
      [] browser = "driver_error" -> load_url_with_requests(url, << >>)
      [] browser = "page_error" \/ browser = "quit_error"
             \/ ~Readable(url) ->
             load_url_with_requests(url,
                                    << "webdriver.Chrome", "driver.quit" >>)
      [] OTHER ->
             Fetched(<< [page_content |-> RenderedContent(url),
                         metadata |-> [source |-> url, type |-> "url",
                                       title |-> url, status_code |-> 200,
                                       method |-> "selenium",
                                       is_js_app |-> TRUE]] >>,
                     << "webdriver.Chrome", "driver.quit" >>)

\* load_url, lines 80-89, with the steps taken: an exception of either
\* loader is caught at line 87
load_url_steps(url, use_selenium, browser) ==
    LET fetched == IF use_selenium
                   THEN load_url_with_selenium(url, browser)
                   ELSE load_url_with_requests(url, << >>)
    IN  IF fetched.raised THEN Fetched(<< >>, fetched.calls) ELSE fetched

load_url(url, use_selenium, browser) ==
    load_url_steps(url, use_selenium, browser).docs

\* load_documents, lines 264-286, for one input; an unsupported type is
\* skipped
LoadOne(input_path, use_js_rendering, browser) ==
    IF is_url(input_path)
    THEN load_url(input_path, use_js_rendering, browser)
    ELSE CASE Suffix(input_path) = ".txt" -> load_text_file(input_path)
           [] Suffix(input_path) = ".pdf" -> load_pdf_file(input_path)
           [] Suffix(input_path) \in {".docx", ".doc"} ->
                  load_docx_file(input_path)
           [] OTHER -> << >>

\* load_documents stopping at the first input that gives no document
RECURSIVE load_documents_until_failure(_, _, _)
load_documents_until_failure(inputs, use_js_rendering, browser) ==
    IF inputs = << >> THEN << >>
    ELSE IF LoadOne(Head(inputs), use_js_rendering, browser) = << >>
    THEN << >>
    ELSE LoadOne(Head(inputs), use_js_rendering, browser)
             \o load_documents_until_failure(Tail(inputs), use_js_rendering,
                                             browser)

\* load_documents, lines 258-291
RECURSIVE load_documents(_, _, _)
load_documents(inputs, use_js_rendering, browser) ==
    IF inputs = << >> THEN << >>
    ELSE LoadOne(Head(inputs), use_js_rendering, browser)
             \o load_documents(Tail(inputs), use_js_rendering, browser)

\* str.split('\n\n')
RECURSIVE SplitParagraphs(_)
SplitParagraphs(s) ==
    LET cuts == { i \in 1..(Len(s) - 1) : s[i] = "\n" /\ s[i + 1] = "\n" }
    IN  IF cuts = {} THEN << s >>
        ELSE LET i == CHOOSE c \in cuts : \A o \in cuts : c <= o
             IN  << SubSeq(s, 1, i - 1) >>
                     \o SplitParagraphs(SubSeq(s, i + 2, Len(s)))

\* process_documents making each chunk of a paragraph and the one after it
RECURSIVE Chunks_overlapping(_, _, _)
Chunks_overlapping(doc, paragraphs, i) ==
    IF i > Len(paragraphs) THEN << >>
    ELSE LET next == IF i < Len(paragraphs)
                     THEN <<"\n", "\n">> \o paragraphs[i + 1]
                     ELSE << >>
             rest == Chunks_overlapping(doc, paragraphs, i + 1)
         IN  IF Strip(paragraphs[i]) # EmptyText
             THEN << [page_content |-> Strip(paragraphs[i] \o next),
                      metadata |-> ("chunk" :> (i - 1)) @@ doc.metadata] >>
                      \o rest
             ELSE rest

\* process_documents keeping the blank paragraphs
RECURSIVE Chunks_keeping_blank(_, _, _)
Chunks_keeping_blank(doc, paragraphs, i) ==
    IF i > Len(paragraphs) THEN << >>
    ELSE << [page_content |-> Strip(paragraphs[i]),
             metadata |-> ("chunk" :> (i - 1)) @@ doc.metadata] >>
             \o Chunks_keeping_blank(doc, paragraphs, i + 1)

\* process_documents, lines 300-308, for one document: its non-blank
\* paragraphs from the i-th on, trimmed, with their positions (from 0)
RECURSIVE Chunks(_, _, _)
Chunks(doc, paragraphs, i) ==
    IF i > Len(paragraphs) THEN << >>
    ELSE LET rest == Chunks(doc, paragraphs, i + 1)
         IN  IF Strip(paragraphs[i]) # EmptyText
             THEN << [page_content |-> Strip(paragraphs[i]),
                      metadata |-> ("chunk" :> (i - 1)) @@ doc.metadata] >>
                      \o rest
             ELSE rest

\* process_documents, lines 293-311
RECURSIVE process_documents(_)
process_documents(docs) ==
    IF docs = << >> THEN << >>
    ELSE Chunks(Head(docs), SplitParagraphs(Head(docs).page_content), 1)
             \o process_documents(Tail(docs))

---------------------------------------------------------------------------
\* SimpleRAGSystem: retrieval and query.

\* Characters that \w does not match.
NonWord == Whitespace \cup { ".", "," }

\* set(re.findall(r'\w+', s)): the maximal runs of word characters of s,
\* found left to right; word is the run in progress
RECURSIVE WordsFrom(_, _)
WordsFrom(s, word) ==
    IF s = << >> THEN (IF word = << >> THEN {} ELSE { word })
    ELSE IF Head(s) \in NonWord
         THEN (IF word = << >> THEN {} ELSE { word })
                  \cup WordsFrom(Tail(s), << >>)
         ELSE WordsFrom(Tail(s), Append(word, Head(s)))

Words(s) == WordsFrom(Lower(s), << >>)

\* lines 342-348: the overlap score of a chunk
Overlap(question, doc) ==
    Cardinality(Words(question) \cap Words(doc.page_content))

\* the chunks with their scores, those without a common word included
RECURSIVE Scored_keeping_zero(_, _)
Scored_keeping_zero(question, docs) ==
    IF docs = << >> THEN << >>
    ELSE << [score |-> Overlap(question, Head(docs)), doc |-> Head(docs)] >>
             \o Scored_keeping_zero(question, Tail(docs))

\* lines 344-350: the chunks with a positive score, in store order
RECURSIVE Scored(_, _)
Scored(question, docs) ==
    IF docs = << >> THEN << >>
    ELSE LET score == Overlap(question, Head(docs))
             rest == Scored(question, Tail(docs))
         IN  IF score > 0
             THEN << [score |-> score, doc |-> Head(docs)] >> \o rest
             ELSE rest

\* a sort that puts a chunk before the earlier chunks of equal score
RECURSIVE InsertByScore_before_equal(_, _)
InsertByScore_before_equal(x, sorted) ==
    IF sorted = << >> THEN << x >>
    ELSE IF Head(sorted).score > x.score
         THEN << Head(sorted) >> \o InsertByScore_before_equal(x, Tail(sorted))
         ELSE << x >> \o sorted

\* list.sort(key=score, reverse=True): stable, equal scores keep their order
RECURSIVE InsertByScore(_, _)
InsertByScore(x, sorted) ==
    IF sorted = << >> THEN << x >>
    ELSE IF Head(sorted).score >= x.score
         THEN << Head(sorted) >> \o InsertByScore(x, Tail(sorted))
         ELSE << x >> \o sorted

RECURSIVE SortByScore(_)
SortByScore(scored) ==
    IF scored = << >> THEN << >>
    ELSE InsertByScore(scored[Len(scored)],
                       SortByScore(SubSeq(scored, 1, Len(scored) - 1)))

\* find_relevant_documents, lines 336-354
find_relevant_documents(question, k) ==
    IF documents = << >> THEN << >>
    ELSE LET ranked == SortByScore(Scored(question, documents))
             n == IF Len(ranked) < k THEN Len(ranked) ELSE k
         IN  IF n = 0 THEN << >> ELSE [i \in 1..n |-> ranked[i].doc]

NotInitializedAnswer ==
    "RAG system not initialized. Please upload documents first."

NoRelevantAnswer == "No relevant information found in the knowledge base."

QueryErrorAnswer == "Error querying RAG system"

\* What query gives its caller: the dictionary it returns, or the exception
\* it lets through, and the calls it made on the way.
Returned(answer, source_documents, calls) ==
    [raised |-> FALSE, answer |-> answer,
     source_documents |-> source_documents, calls |-> calls]

Raised(calls) ==
    [raised |-> TRUE, answer |-> "", source_documents |-> << >>,
     calls |-> calls]

\* query without the test of line 358
query_unguarded(question, invoke) ==
    LET relevant_docs == find_relevant_documents(question, 3)
    IN  IF relevant_docs = << >>
        THEN Returned(NoRelevantAnswer, << >>, << "find_relevant_documents" >>)
        ELSE IF invoke = "raise"
        THEN Returned(QueryErrorAnswer, << >>,
                      << "find_relevant_documents", "invoke" >>)
        ELSE Returned(invoke, relevant_docs,
                      << "find_relevant_documents", "invoke" >>)

\* query without the test of line 368
query_without_documents(question, invoke) ==
    IF llm = "None" \/ documents = << >>
    THEN Returned(NotInitializedAnswer, << >>, << >>)
    ELSE LET relevant_docs == find_relevant_documents(question, 3)
         IN  IF invoke = "raise"
             THEN Returned(QueryErrorAnswer, << >>,
                           << "find_relevant_documents", "invoke" >>)
             ELSE Returned(invoke, relevant_docs,
                           << "find_relevant_documents", "invoke" >>)

\* query without the handler of lines 396-400
query_propagating(question, invoke) ==
    IF llm = "None" \/ documents = << >>
    THEN Returned(NotInitializedAnswer, << >>, << >>)
    ELSE LET relevant_docs == find_relevant_documents(question, 3)
         IN  IF relevant_docs = << >>
             THEN Returned(NoRelevantAnswer, << >>,
                           << "find_relevant_documents" >>)
             ELSE IF invoke = "raise"
             THEN Raised(<< "find_relevant_documents", "invoke" >>)
             ELSE Returned(invoke, relevant_docs,
                           << "find_relevant_documents", "invoke" >>)

\* query, lines 356-400; invoke is what self.llm.invoke does: "raise" or the
\* answer it returns
query(question, invoke) ==
    IF llm = "None" \/ documents = << >>
    THEN Returned(NotInitializedAnswer, << >>, << >>)
    ELSE LET relevant_docs == find_relevant_documents(question, 3)
         IN  IF relevant_docs = << >>
             THEN Returned(NoRelevantAnswer, << >>,
                           << "find_relevant_documents" >>)
             ELSE IF invoke = "raise"
             THEN Returned(QueryErrorAnswer, << >>,
                           << "find_relevant_documents", "invoke" >>)
             ELSE Returned(invoke, relevant_docs,
                           << "find_relevant_documents", "invoke" >>)

\* get_stats, lines 408-416
get_stats ==
    IF documents = << >>
    THEN [total_documents |-> 0, status |-> "Not initialized"]
    ELSE [total_documents |-> Len(documents), status |-> "Ready"]

---------------------------------------------------------------------------
\* SupportAgent: the conversation.

UserTurn(text) == [role |-> "user", content |-> text]

AssistantTurn(text) == [role |-> "assistant", content |-> text]

\* A prompt is the sequence of the pieces of text it is made of.  The three
\* system prompts of lines 216-227: the stored prompt followed by the
\* answer of the knowledge base between two fixed sentences, followed by the
\* note that the search failed, or alone.
KnowledgeIntro == "Based on the knowledge base, here's relevant information:"

KnowledgeOutro == "Use this information to provide a helpful and accurate response."

SearchFailedNote == "Note: Knowledge base search failed, using general knowledge."

PromptWithAnswer(prompt, rag_answer) ==
    prompt \o << KnowledgeIntro, rag_answer, KnowledgeOutro >>

PromptWithNote(prompt) == prompt \o << SearchFailedNote >>

PromptAlone(prompt) == prompt

\* the test of line 208 without its second half
rag_is_used_when_enabled == use_rag

\* line 208: the knowledge base is asked
rag_is_used == use_rag /\ documents # << >>

\* What generate_response got from the knowledge base: nothing when it did
\* not ask, the exception of line 211, or the result of query.
NotAsked == Returned("", << >>, << >>)

rag_result(user_input, query_raises, invoke) ==
    IF ~rag_is_used THEN NotAsked
    ELSE IF query_raises THEN Raised(<< >>)
    ELSE query(user_input, invoke)

\* lines 208-227 with the stored prompt in place of the note when the query
\* raises
enhanced_prompt_without_note(user_input, query_raises, invoke) ==
    IF rag_is_used
    THEN IF query_raises
         THEN PromptAlone(system_prompt)
         ELSE PromptWithAnswer(system_prompt, query(user_input, invoke).answer)
    ELSE PromptAlone(system_prompt)

\* lines 208-227
enhanced_prompt(user_input, query_raises, invoke) ==
    IF rag_is_used
    THEN IF query_raises
         THEN PromptWithNote(system_prompt)
         ELSE PromptWithAnswer(system_prompt, query(user_input, invoke).answer)
    ELSE PromptAlone(system_prompt)

\* lines 230-232 with the history as it was before the call
messages_without_new_turn(user_input, query_raises, invoke) ==
    << [role |-> "system",
        content |-> enhanced_prompt(user_input, query_raises, invoke)] >>
        \o conversation_history

\* lines 230-232: the history already holds the new user turn (line 202)
messages(user_input, query_raises, invoke) ==
    << [role |-> "system",
        content |-> enhanced_prompt(user_input, query_raises, invoke)] >>
        \o Append(conversation_history, UserTurn(user_input))

\* generate_response keeping the prompt it built as the stored prompt
generate_response_storing(user_input, query_raises, invoke, chat_raises, reply) ==
    /\ Len(conversation_history) + 2 <= MaxHistory
    /\ LET sent == messages(user_input, query_raises, invoke)
           history == Append(conversation_history, UserTurn(user_input))
       IN  /\ conversation_history' =
                  IF chat_raises THEN history
                  ELSE Append(history, AssistantTurn(reply))
           /\ last' = [op |-> "generate_response", raised |-> chat_raises,
                       user_input |-> user_input,
                       query_raised |-> query_raises /\ use_rag
                                           /\ documents # << >>,
                       queried |-> rag_is_used,
                       rag_result |->
                           rag_result(user_input, query_raises, invoke),
                       sent |-> sent,
                       returned |-> IF chat_raises THEN EmptyText ELSE reply]
    /\ system_prompt' = enhanced_prompt(user_input, query_raises, invoke)
    /\ UNCHANGED << use_rag, documents, llm >>
    /\ UNCHANGED << speechVars, vectorVars, pageVars >>

\* generate_response, lines 199-250.  query_raises: the call of line 211
\* raises; invoke: what the knowledge base's LLM does when asked;
\* chat_raises: the chat completion of line 235 raises; reply: what it
\* returns otherwise.
generate_response(user_input, query_raises, invoke, chat_raises, reply) ==
    /\ Len(conversation_history) + 2 <= MaxHistory
    /\ LET sent == messages(user_input, query_raises, invoke)
           history == Append(conversation_history, UserTurn(user_input))
       IN  IF chat_raises
           THEN /\ conversation_history' = history
                /\ last' = [op |-> "generate_response", raised |-> TRUE,
                            user_input |-> user_input,
                            query_raised |-> query_raises /\ use_rag
                                                /\ documents # << >>,
                            queried |-> rag_is_used,
                       rag_result |->
                           rag_result(user_input, query_raises, invoke),
                       sent |-> sent, returned |-> EmptyText]
           ELSE /\ conversation_history' =
                       Append(history, AssistantTurn(reply))
                /\ last' = [op |-> "generate_response", raised |-> FALSE,
                            user_input |-> user_input,
                            query_raised |-> query_raises /\ use_rag
                                                /\ documents # << >>,
                            queried |-> rag_is_used,
                       rag_result |->
                           rag_result(user_input, query_raises, invoke),
                       sent |-> sent, returned |-> reply]
    /\ UNCHANGED << system_prompt, use_rag, documents, llm >>
    /\ UNCHANGED << speechVars, vectorVars, pageVars >>

\* reset_conversation with the prompt set back to the constructor's
reset_conversation_and_prompt ==
    /\ conversation_history' = << >>
    /\ system_prompt' = << DefaultPrompt >>
    /\ last' = [op |-> "reset_conversation",
                dropped |-> Len(conversation_history)]
    /\ UNCHANGED << use_rag, documents, llm >>
    /\ UNCHANGED << speechVars, vectorVars, pageVars >>

\* reset_conversation, lines 283-285
reset_conversation ==
    /\ conversation_history' = << >>
    /\ last' = [op |-> "reset_conversation",
                dropped |-> Len(conversation_history)]
    /\ UNCHANGED << system_prompt, use_rag, documents, llm >>
    /\ UNCHANGED << speechVars, vectorVars, pageVars >>

\* set_system_prompt starting a new conversation
set_system_prompt_resetting(prompt) ==
    /\ system_prompt' = prompt
    /\ conversation_history' = << >>
    /\ last' = [op |-> "set_system_prompt"]
    /\ UNCHANGED << use_rag, documents, llm >>
    /\ UNCHANGED << speechVars, vectorVars, pageVars >>

\* set_system_prompt, lines 287-289
set_system_prompt(prompt) ==
    /\ system_prompt' = prompt
    /\ last' = [op |-> "set_system_prompt"]
    /\ UNCHANGED << conversation_history, use_rag, documents, llm >>
    /\ UNCHANGED << speechVars, vectorVars, pageVars >>

\* enable_rag, lines 295-297
enable_rag(enabled) ==
    /\ use_rag' = enabled
    /\ last' = [op |-> "enable_rag"]
    /\ UNCHANGED << conversation_history, system_prompt, documents, llm >>
    /\ UNCHANGED << speechVars, vectorVars, pageVars >>

---------------------------------------------------------------------------
\* SupportAgent: the knowledge base.

NoDocumentsMessage == "No documents loaded"

CreatedMessage == "Knowledge base created"

SetupErrorMessage == "Error setting up knowledge base"

\* setup_rag_knowledge_base emptying the store when nothing was loaded
setup_rag_knowledge_base_clearing(inputs, use_js_rendering, browser, client_raises) ==
    /\ LET docs == load_documents(inputs, use_js_rendering, browser)
           processed_docs == process_documents(docs)
       IN  IF docs = << >>
           THEN /\ documents' = << >>
                /\ llm' = "None"
                /\ last' = [op |-> "setup_rag_knowledge_base",
                            inputs |-> inputs,
                            use_js_rendering |-> use_js_rendering,
                            browser |-> browser,
                            loaded |-> 0, success |-> FALSE,
                            message |-> NoDocumentsMessage, chunks |-> 0]
           ELSE IF processed_docs = << >>
           THEN /\ UNCHANGED << documents, llm >>
                /\ last' = [op |-> "setup_rag_knowledge_base",
                            inputs |-> inputs,
                            use_js_rendering |-> use_js_rendering,
                            browser |-> browser,
                            loaded |-> Len(docs), success |-> TRUE,
                            message |-> CreatedMessage, chunks |-> 0]
           ELSE /\ documents' = processed_docs
                /\ IF client_raises
                   THEN /\ UNCHANGED llm
                        /\ last' = [op |-> "setup_rag_knowledge_base",
                                    inputs |-> inputs,
                                    use_js_rendering |-> use_js_rendering,
                                    browser |-> browser,
                                    loaded |-> Len(docs), success |-> FALSE,
                                    message |-> SetupErrorMessage,
                                    chunks |-> 0]
                   ELSE /\ llm' = "client"
                        /\ last' = [op |-> "setup_rag_knowledge_base",
                                    inputs |-> inputs,
                                    use_js_rendering |-> use_js_rendering,
                                    browser |-> browser,
                                    loaded |-> Len(docs), success |-> TRUE,
                                    message |-> CreatedMessage,
                                    chunks |-> Len(processed_docs)]
    /\ UNCHANGED << conversation_history, system_prompt, use_rag >>
    /\ UNCHANGED << speechVars, vectorVars, pageVars >>

\* setup_rag_knowledge_base, lines 299-316, with create_knowledge_base
\* (simple_rag.py lines 313-334): nothing loaded is reported at line 305;
\* no chunk makes create_knowledge_base return at line 317; otherwise line
\* 319 installs the chunks, then the LLM client is constructed, and when
\* its constructor raises (client_raises) line 334 raises again and line
\* 316 reports it.
setup_rag_knowledge_base(inputs, use_js_rendering, browser, client_raises) ==
    /\ LET docs == load_documents(inputs, use_js_rendering, browser)
           processed_docs == process_documents(docs)
       IN  IF docs = << >>
           THEN /\ UNCHANGED << documents, llm >>
                /\ last' = [op |-> "setup_rag_knowledge_base",
                            inputs |-> inputs,
                            use_js_rendering |-> use_js_rendering,
                            browser |-> browser,
                            loaded |-> 0, success |-> FALSE,
                            message |-> NoDocumentsMessage, chunks |-> 0]
           ELSE IF processed_docs = << >>
           THEN /\ UNCHANGED << documents, llm >>
                /\ last' = [op |-> "setup_rag_knowledge_base",
                            inputs |-> inputs,
                            use_js_rendering |-> use_js_rendering,
                            browser |-> browser,
                            loaded |-> Len(docs), success |-> TRUE,
                            message |-> CreatedMessage, chunks |-> 0]
           ELSE /\ documents' = processed_docs
                /\ IF client_raises
                   THEN /\ UNCHANGED llm
                        /\ last' = [op |-> "setup_rag_knowledge_base",
                                    inputs |-> inputs,
                                    use_js_rendering |-> use_js_rendering,
                                    browser |-> browser,
                                    loaded |-> Len(docs), success |-> FALSE,
                                    message |-> SetupErrorMessage,
                                    chunks |-> 0]
                   ELSE /\ llm' = "client"
                        /\ last' = [op |-> "setup_rag_knowledge_base",
                                    inputs |-> inputs,
                                    use_js_rendering |-> use_js_rendering,
                                    browser |-> browser,
                                    loaded |-> Len(docs), success |-> TRUE,
                                    message |-> CreatedMessage,
                                    chunks |-> Len(processed_docs)]
    /\ UNCHANGED << conversation_history, system_prompt, use_rag >>
    /\ UNCHANGED << speechVars, vectorVars, pageVars >>

\* clear_rag_knowledge_base, lines 322-325, with clear_knowledge_base
\* (simple_rag.py lines 402-406)
clear_rag_knowledge_base ==
    /\ documents' = << >>
    /\ llm' = "None"
    /\ use_rag' = FALSE
    /\ last' = [op |-> "clear_rag_knowledge_base"]
    /\ UNCHANGED << conversation_history, system_prompt >>
    /\ UNCHANGED << speechVars, vectorVars, pageVars >>

---------------------------------------------------------------------------
\* Any caller of the conversation and knowledge base interface.

NextChat ==
    \/ \E user_input \in UserTexts, query_raises \in BOOLEAN,
          invoke \in RagAnswers \cup {"raise"}, chat_raises \in BOOLEAN,
          reply \in Replies :
            generate_response(user_input, query_raises, invoke, chat_raises,
                              reply)
    \/ reset_conversation
    \/ \E prompt \in Prompts : set_system_prompt(prompt)
    \/ \E enabled \in BOOLEAN : enable_rag(enabled)
    \/ \E inputs \in BuildInputs, client_raises \in BOOLEAN :
            setup_rag_knowledge_base(inputs, FALSE, NoBrowser, client_raises)
    \/ clear_rag_knowledge_base

SpecChat == Init /\ [][NextChat]_vars

---------------------------------------------------------------------------
\* SimpleRAGSystem and SupportAgent: the calls on the knowledge base.

\* The largest number of chunks asked of find_relevant_documents.
MaxK == 3

\* The questions asked: empty, a word no source holds, the word "beta", and
\* the two words "b" and "A".
Questions == { << >>,
               <<"z">>,
               <<"b", "e", "t", "a">>,
               <<"b", " ", "A">> }

\* The input lists given to the loader and to the build.
KbInputs == { << >>,
              <<"x.bin", "missing.txt">>,
              <<"blank.txt">>,
              <<"alpha.txt">>,
              <<"a.txt", "ab.txt", "n.txt">>,
              <<"missing.txt", "p.pdf", "bad.pdf", "http://down",
                "http://up", "x.bin", "d.docx">> }

\* get_rag_stats, support_agent.py lines 318-320
get_rag_stats ==
    /\ last' = [op |-> "get_rag_stats", stats |-> get_stats]
    /\ UNCHANGED << conversation_history, system_prompt, use_rag, documents,
                    llm >>
    /\ UNCHANGED << speechVars, vectorVars, pageVars >>

\* A call of query, simple_rag.py lines 356-400.
Query(question, invoke) ==
    /\ last' = [op |-> "query", question |-> question,
                result |-> query(question, invoke)]
    /\ UNCHANGED << conversation_history, system_prompt, use_rag, documents,
                    llm >>
    /\ UNCHANGED << speechVars, vectorVars, pageVars >>

\* A call of find_relevant_documents, simple_rag.py lines 336-354.
Rank(question, k) ==
    /\ last' = [op |-> "find_relevant_documents", question |-> question,
                k |-> k, result |-> find_relevant_documents(question, k)]
    /\ UNCHANGED << conversation_history, system_prompt, use_rag, documents,
                    llm >>
    /\ UNCHANGED << speechVars, vectorVars, pageVars >>

\* A call of process_documents, simple_rag.py lines 293-311.
Process(docs) ==
    /\ last' = [op |-> "process_documents", docs |-> docs,
                result |-> process_documents(docs)]
    /\ UNCHANGED << conversation_history, system_prompt, use_rag, documents,
                    llm >>
    /\ UNCHANGED << speechVars, vectorVars, pageVars >>

\* A call of load_url, simple_rag.py lines 80-89.
LoadUrl(url, use_selenium, browser) ==
    /\ last' = [op |-> "load_url", url |-> url,
                use_selenium |-> use_selenium, browser |-> browser,
                result |-> load_url(url, use_selenium, browser),
                calls |-> load_url_steps(url, use_selenium, browser).calls]
    /\ UNCHANGED << conversation_history, system_prompt, use_rag, documents,
                    llm >>
    /\ UNCHANGED << speechVars, vectorVars, pageVars >>

\* A call of load_documents, simple_rag.py lines 258-291.
Load(inputs, use_js_rendering, browser) ==
    /\ last' = [op |-> "load_documents", inputs |-> inputs,
                use_js_rendering |-> use_js_rendering, browser |-> browser,
                result |-> load_documents(inputs, use_js_rendering, browser)]
    /\ UNCHANGED << conversation_history, system_prompt, use_rag, documents,
                    llm >>
    /\ UNCHANGED << speechVars, vectorVars, pageVars >>

---------------------------------------------------------------------------
\* RAGSystem (src/rag_system.py): the knowledge base kept in a vector store.

\* loader.load() of lines 44-54 for one file; a loader that fails raises
\* and line 58 catches it; a PDF gives one document per page
RAGSystem_LoadOne(file_path) ==
    CASE Suffix(file_path) = ".txt" ->
             IF Readable(file_path)
             THEN << [page_content |-> FileContent(file_path),
                      metadata |-> [source |-> file_path]] >>
             ELSE << >>
      [] Suffix(file_path) = ".pdf" ->
             IF Readable(file_path)
             THEN [i \in 1..Len(Pages(file_path)) |->
                      [page_content |-> Pages(file_path)[i],
                       metadata |-> [source |-> file_path, page |-> i - 1]]]
             ELSE << >>
      [] Suffix(file_path) \in {".docx", ".doc"} ->
             IF Readable(file_path)
             THEN << [page_content |-> JoinLines(Paragraphs(file_path)),
                      metadata |-> [source |-> file_path]] >>
             ELSE << >>
      [] OTHER -> << >>

\* load_documents, lines 37-62
RECURSIVE RAGSystem_load_documents(_)
RAGSystem_load_documents(file_paths) ==
    IF file_paths = << >> THEN << >>
    ELSE RAGSystem_LoadOne(Head(file_paths))
             \o RAGSystem_load_documents(Tail(file_paths))

\* A call of load_documents, lines 37-62.
RAGSystem_Load(file_paths) ==
    /\ last' = [op |-> "RAGSystem.load_documents", inputs |-> file_paths,
                result |-> RAGSystem_load_documents(file_paths)]
    /\ UNCHANGED << conversation_history, system_prompt, use_rag, documents,
                    llm >>
    /\ UNCHANGED << speechVars, vectorVars, pageVars >>

\* create_vectorstore, lines 74-104: an existing store is opened unless
\* force_recreate is set or opening it raises (open_raises); otherwise a
\* store is created from the documents, and an exception of the creation
\* (create_raises) is raised again
RAGSystem_create_vectorstore(docs, force_recreate, open_raises, create_raises) ==
    /\ IF docs = << >>
       THEN /\ UNCHANGED vectorVars
            /\ last' = [op |-> "RAGSystem.create_vectorstore",
                        raised |-> FALSE]
       ELSE IF persisted /\ ~force_recreate /\ ~open_raises
       THEN /\ vectorstore' = "Chroma"
            /\ UNCHANGED << qa_chain, persisted, collection >>
            /\ last' = [op |-> "RAGSystem.create_vectorstore",
                        raised |-> FALSE]
       ELSE IF create_raises
       THEN /\ UNCHANGED vectorVars
            /\ last' = [op |-> "RAGSystem.create_vectorstore",
                        raised |-> TRUE]
       ELSE /\ vectorstore' = "Chroma"
            /\ persisted' = TRUE
            /\ collection' = docs
            /\ UNCHANGED qa_chain
            /\ last' = [op |-> "RAGSystem.create_vectorstore",
                        raised |-> FALSE]
    /\ UNCHANGED << conversation_history, system_prompt, use_rag, documents,
                    llm >>
    /\ UNCHANGED << speechVars, pageVars >>

\* setup_qa_chain, lines 106-140
RAGSystem_setup_qa_chain(raises) ==
    /\ IF vectorstore = "None"
       THEN /\ UNCHANGED qa_chain
            /\ last' = [op |-> "RAGSystem.setup_qa_chain", raised |-> FALSE]
       ELSE IF raises
       THEN /\ UNCHANGED qa_chain
            /\ last' = [op |-> "RAGSystem.setup_qa_chain", raised |-> TRUE]
       ELSE /\ qa_chain' = "RetrievalQA"
            /\ last' = [op |-> "RAGSystem.setup_qa_chain", raised |-> FALSE]
    /\ UNCHANGED << vectorstore, persisted, collection >>
    /\ UNCHANGED << conversation_history, system_prompt, use_rag, documents,
                    llm >>
    /\ UNCHANGED << speechVars, pageVars >>

\* query, lines 142-160; chain is what self.qa_chain does: "raise" or the
\* answer it gives, with the documents it retrieved
RAGSystem_query(question, chain) ==
    /\ last' = [op |-> "RAGSystem.query", question |-> question,
                result |->
                    IF qa_chain = "None"
                    THEN Returned(NotInitializedAnswer, << >>, << >>)
                    ELSE IF chain = "raise"
                    THEN Returned(QueryErrorAnswer, << >>, << "qa_chain" >>)
                    ELSE Returned(chain, SubSeq(collection, 1, 1),
                                  << "qa_chain" >>)]
    /\ UNCHANGED << conversation_history, system_prompt, use_rag, documents,
                    llm >>
    /\ UNCHANGED << speechVars, vectorVars, pageVars >>

\* clear_knowledge_base, lines 174-184: when removing the directory raises
\* (rmtree_raises), line 183 reports it and the store stays bound
RAGSystem_clear_knowledge_base(rmtree_raises) ==
    /\ IF persisted /\ rmtree_raises
       THEN UNCHANGED vectorVars
       ELSE /\ persisted' = FALSE
            /\ collection' = << >>
            /\ vectorstore' = "None"
            /\ qa_chain' = "None"
    /\ last' = [op |-> "RAGSystem.clear_knowledge_base"]
    /\ UNCHANGED << conversation_history, system_prompt, use_rag, documents,
                    llm >>
    /\ UNCHANGED << speechVars, pageVars >>

\* get_stats, lines 186-205; count_raises: reading the count of the
\* collection raises
RAGSystem_get_stats(count_raises) ==
    /\ last' = [op |-> "RAGSystem.get_stats",
                stats |->
                    IF vectorstore = "None"
                    THEN [total_documents |-> 0, status |-> "Not initialized"]
                    ELSE IF count_raises
                    THEN [total_documents |-> 0, status |-> "Error"]
                    ELSE [total_documents |-> Len(collection),
                          status |-> "Ready"]]
    /\ UNCHANGED << conversation_history, system_prompt, use_rag, documents,
                    llm >>
    /\ UNCHANGED << speechVars, vectorVars, pageVars >>

---------------------------------------------------------------------------
\* Any caller of the knowledge bases.

NextKB ==
    \/ \E inputs \in KbInputs, use_js_rendering \in BOOLEAN,
          client_raises \in BOOLEAN :
            \E browser \in BrowsersOf(use_js_rendering) :
                setup_rag_knowledge_base(inputs, use_js_rendering, browser,
                                         client_raises)
    \/ clear_rag_knowledge_base
    \/ get_rag_stats
    \/ \E question \in Questions, invoke \in RagAnswers \cup {"raise"} :
            Query(question, invoke)
    \/ \E question \in Questions, k \in 0..MaxK : Rank(question, k)
    \/ \E docs \in { load_documents(inputs, FALSE, NoBrowser) :
                           inputs \in KbInputs }
                       \cup { documents }
                       \cup { << documents[i] >> : i \in 1..Len(documents) } :
            Process(docs)
    \/ \E inputs \in KbInputs, use_js_rendering \in BOOLEAN :
            \E browser \in BrowsersOf(use_js_rendering) :
                Load(inputs, use_js_rendering, browser)
    \/ \E url \in { path \in Paths : is_url(path) },
          use_selenium \in BOOLEAN :
            \E browser \in BrowsersOf(use_selenium) :
                LoadUrl(url, use_selenium, browser)
    \/ \E file_paths \in KbInputs : RAGSystem_Load(file_paths)
    \/ \E file_paths \in KbInputs, force_recreate \in BOOLEAN,
          open_raises \in BOOLEAN, create_raises \in BOOLEAN :
            RAGSystem_create_vectorstore(RAGSystem_load_documents(file_paths),
                                         force_recreate, open_raises,
                                         create_raises)
    \/ \E raises \in BOOLEAN : RAGSystem_setup_qa_chain(raises)
    \/ \E question \in Questions, chain \in RagAnswers \cup {"raise"} :
            RAGSystem_query(question, chain)
    \/ \E rmtree_raises \in BOOLEAN :
            RAGSystem_clear_knowledge_base(rmtree_raises)
    \/ \E count_raises \in BOOLEAN : RAGSystem_get_stats(count_raises)

SpecKB == Init /\ [][NextKB]_vars

---------------------------------------------------------------------------
\* Steps of the conversation and knowledge base interface: the call that a
\* step makes is the one recorded in last.
Responds == last'.op = "generate_response"

Resets == last'.op = "reset_conversation"

Builds == last'.op = "setup_rag_knowledge_base"

IsPrefix(s, t) == Len(s) <= Len(t) /\ SubSeq(t, 1, Len(s)) = s

---------------------------------------------------------------------------
\* C14: reset_conversation empties conversation_history and leaves
\* system_prompt and use_rag as they were; the turns before it leave
\* system_prompt as it was too, so a prompt set before them is still the
\* stored prompt after the reset.
C14_ResetEmptiesHistoryOnly ==
    /\ [][ Resets =>
             /\ conversation_history' = << >>
             /\ Len(conversation_history') = 0
             /\ system_prompt' = system_prompt
             /\ use_rag' = use_rag ]_vars
    /\ [][ system_prompt' # system_prompt =>
             last'.op = "set_system_prompt" ]_vars

\* A conversation of four turns held under the prompt "X" with retrieval
\* enabled has just been reset.
C14_Witness ==
    /\ last.op = "reset_conversation"
    /\ last.dropped = 4
    /\ system_prompt = << "X" >>
    /\ use_rag
    /\ conversation_history = << >>

---------------------------------------------------------------------------
\* C15: generate_response leaves system_prompt as it was, whether or not
\* the knowledge base added to the prompt of the call and whether the call
\* returned or raised; the system message of every call starts from the
\* stored prompt, which is always a prompt given to set_system_prompt or
\* the constructor's.
C15_RespondKeepsStoredPrompt ==
    [][ Responds =>
          /\ system_prompt' = system_prompt
          /\ system_prompt' \in Prompts
          /\ IsPrefix(system_prompt, last'.sent[1].content) ]_vars

\* The second turn of a conversation under the prompt "X" had the answer of
\* the knowledge base added to its prompt.
C15_Witness ==
    /\ last.op = "generate_response"
    /\ last.sent[1].content = PromptWithAnswer(<< "X" >>, NoRelevantAnswer)
    /\ Len(last.sent) = 4
    /\ Len(conversation_history) = 4
    /\ use_rag
    /\ system_prompt = << "X" >>

---------------------------------------------------------------------------
\* C16: between resets conversation_history only grows at its end: every
\* step other than a reset_conversation leaves the previous history a
\* prefix of the new one, and the history gets shorter only by a
\* reset_conversation, which leaves it empty.
C16_HistoryAppendOnly ==
    /\ [][ ~Resets =>
             IsPrefix(conversation_history, conversation_history') ]_vars
    /\ [][ Len(conversation_history') < Len(conversation_history) =>
             /\ Resets
             /\ conversation_history' = << >> ]_vars

\* A call that raised has left its user turn after the two turns of the
\* call before it.
C16_Witness ==
    /\ last.op = "generate_response"
    /\ last.raised
    /\ Len(conversation_history) = 3
    /\ conversation_history[2].role = "assistant"
    /\ conversation_history[3] = UserTurn(last.user_input)

---------------------------------------------------------------------------
\* C17: a generate_response that returns has sent one system message
\* followed by the whole history with the new user turn at its end, and
\* leaves the history equal to the old one followed by the user turn and by
\* the assistant turn that holds the reply returned.
C17_RespondSendsHistoryAndAppends ==
    [][ (Responds /\ ~last'.raised) =>
          LET sent == last'.sent
              turn == UserTurn(last'.user_input)
          IN  /\ Len(sent) = Len(conversation_history) + 2
              /\ sent[1].role = "system"
              /\ \A i \in 2..Len(sent) : sent[i].role # "system"
              /\ SubSeq(sent, 2, Len(sent)) =
                     conversation_history \o << turn >>
              /\ last'.returned \in Replies
              /\ conversation_history' =
                     conversation_history
                         \o << turn, AssistantTurn(last'.returned) >> ]_vars

\* The second turn of a conversation has returned its reply.
C17_Witness ==
    /\ last.op = "generate_response"
    /\ ~last.raised
    /\ Len(last.sent) = 4
    /\ Len(conversation_history) = 4
    /\ conversation_history[3] = UserTurn(<<"c">>)
    /\ conversation_history[4] = AssistantTurn(<<"n", "o">>)
    /\ last.returned = <<"n", "o">>

---------------------------------------------------------------------------
\* C18: when the query of the knowledge base raises inside
\* generate_response, the chat completion is still called, with the stored
\* prompt followed by a note as its system message, and unless that call
\* raises itself the reply is appended to the history and returned.
C18_RetrievalFailureDegrades ==
    [][ (Responds /\ last'.query_raised) =>
          /\ Len(last'.sent) = Len(conversation_history) + 2
          /\ last'.sent[1].role = "system"
          /\ IsPrefix(system_prompt, last'.sent[1].content)
          /\ Len(last'.sent[1].content) = Len(system_prompt) + 1
          /\ ~last'.raised =>
                 /\ last'.returned \in Replies
                 /\ conversation_history' =
                        conversation_history
                            \o << UserTurn(last'.user_input),
                                  AssistantTurn(last'.returned) >> ]_vars

\* A turn whose query of the knowledge base raised has returned a reply.
C18_Witness ==
    /\ last.op = "generate_response"
    /\ last.query_raised
    /\ ~last.raised
    /\ last.sent[1].content = << "X", SearchFailedNote >>
    /\ last.returned = <<"o", "k">>
    /\ conversation_history[Len(conversation_history)] =
           AssistantTurn(<<"o", "k">>)

---------------------------------------------------------------------------
\* C19: when the construction of the LLM client raises during a build, the
\* build reports a failure and the store holds the chunks, and the client,
\* it held before the build.
C19_FailedClientLeavesStore ==
    [][ (Builds /\ last'.message = SetupErrorMessage) =>
          /\ ~last'.success
          /\ documents' = documents
          /\ llm' = llm ]_vars

---------------------------------------------------------------------------
\* C20: a build that loads no document reports a failure with the message
\* "No documents loaded" and leaves the store as it was.
C20_NothingLoadedLeavesStore ==
    [][ (Builds /\ last'.loaded = 0) =>
          /\ ~last'.success
          /\ last'.message = "No documents loaded"
          /\ documents' = documents
          /\ llm' = llm ]_vars

\* A build given only a file of an unsupported type and a file that cannot
\* be opened has failed on a store that holds three chunks.
C20_Witness ==
    /\ last.op = "setup_rag_knowledge_base"
    /\ last.loaded = 0
    /\ ~last.success
    /\ Len(documents) = 3
    /\ llm = "client"

---------------------------------------------------------------------------
\* Steps of the calls on the knowledge bases, recorded in last.
Clears == last'.op = "clear_rag_knowledge_base"

AsksStats == last'.op = "get_rag_stats"

Queries == last'.op = "query"

Ranks == last'.op = "find_relevant_documents"

Processes == last'.op = "process_documents"

Loads == last'.op = "load_documents"

\* The chunks a build of the input list produces.
ChunksOfBuild(inputs, use_js_rendering, browser) ==
    process_documents(load_documents(inputs, use_js_rendering, browser))

---------------------------------------------------------------------------
\* C21: after a build that reports success the store holds exactly the
\* chunks of that build, in the order they were produced, and nothing of
\* what it held before; the store is at every moment the chunk list of one
\* build, never a mixture, and the chunks a query returns are chunks of the
\* store it was asked on.
C21_BuildReplacesStore ==
    /\ [][ Builds /\ last'.success =>
               documents' = ChunksOfBuild(last'.inputs, last'.use_js_rendering,
                                          last'.browser) ]_vars
    /\ [](\E inputs \in KbInputs, use_js_rendering \in BOOLEAN :
            \E browser \in BrowsersOf(use_js_rendering) :
                documents = ChunksOfBuild(inputs, use_js_rendering, browser))
    /\ [][ Queries =>
               \A i \in 1..Len(last'.result.source_documents) :
                   \E j \in 1..Len(documents) :
                       last'.result.source_documents[i] = documents[j] ]_vars

\* A build that reports success has left the chunks of an earlier build in
\* the store.
C21_StaleStoreAfterSuccess ==
    /\ last.op = "setup_rag_knowledge_base"
    /\ last.success
    /\ documents # << >>
    /\ documents # ChunksOfBuild(last.inputs, last.use_js_rendering,
                                 last.browser)

---------------------------------------------------------------------------
\* The statistics say how many chunks a store holds, and "Ready" exactly
\* when it holds some.
StatsOf(stats, count) ==
    /\ stats.total_documents = count
    /\ (stats.status = "Ready") <=> (count > 0)

NotReady(stats) == stats.total_documents = 0 /\ stats.status # "Ready"

NotInitialized(res) ==
    /\ ~res.raised
    /\ res.answer = NotInitializedAnswer
    /\ res.source_documents = << >>

\* C22 for SimpleRAGSystem: clear_rag_knowledge_base empties the store;
\* get_rag_stats gives the number of chunks of the store, ready exactly when
\* there are some; the statistics asked right after a clear are 0 and not
\* ready, and a query asked right after a clear gets the not-initialized
\* result.
C22_SimpleStore ==
    /\ [][ Clears => documents' = << >> ]_vars
    /\ [][ AsksStats => StatsOf(last'.stats, Len(documents)) ]_vars
    /\ [][ last.op = "clear_rag_knowledge_base" /\ AsksStats =>
               NotReady(last'.stats) ]_vars
    /\ [][ last.op = "clear_rag_knowledge_base" /\ Queries =>
               NotInitialized(last'.result) ]_vars

\* C22 for RAGSystem: the same four statements on the vector store.
C22_VectorStore ==
    /\ [][ last'.op = "RAGSystem.clear_knowledge_base" =>
               vectorstore' = "None" /\ collection' = << >> ]_vars
    /\ [][ last'.op = "RAGSystem.get_stats" =>
               StatsOf(last'.stats, Len(collection)) ]_vars
    /\ [][ last.op = "RAGSystem.clear_knowledge_base"
               /\ last'.op = "RAGSystem.get_stats" =>
               NotReady(last'.stats) ]_vars
    /\ [][ last.op = "RAGSystem.clear_knowledge_base"
               /\ last'.op = "RAGSystem.query" =>
               NotInitialized(last'.result) ]_vars

\* C22: clear empties the knowledge store, the statistics always give the
\* current number of chunks and are ready exactly when that number is
\* positive, and after a clear the statistics are 0 and not ready and a
\* query gets the not-initialized result; for both knowledge bases.
C22_ClearEmptiesAndStatsCount == C22_SimpleStore /\ C22_VectorStore

\* After a clear of the vector store, the store is still bound and answers.
C22_VectorStoreSurvivesClear ==
    /\ last.op = "RAGSystem.clear_knowledge_base"
    /\ vectorstore = "Chroma"
    /\ qa_chain = "RetrievalQA"
    /\ collection # << >>

\* The statistics are asked right after a clear of a store that held chunks.
C22_SimpleWitness ==
    /\ last.op = "get_rag_stats"
    /\ last.stats = [total_documents |-> 0, status |-> "Not initialized"]
    /\ documents = << >>
    /\ llm = "None"

---------------------------------------------------------------------------
\* C23: find_relevant_documents(question, k) with k >= 0 returns at most k
\* chunks of the store, in non-increasing order of their overlap with the
\* question, and returned chunks of equal overlap are in the order they
\* have in the store.
C23_RankAtMostKSortedStable ==
    [][ Ranks =>
          LET r == last'.result
              q == last'.question
          IN  /\ Len(r) <= last'.k
              /\ \A i \in 1..(Len(r) - 1) :
                     Overlap(q, r[i]) >= Overlap(q, r[i + 1])
              /\ \E f \in [1..Len(r) -> 1..Len(documents)] :
                     /\ \A i \in 1..Len(r) : r[i] = documents[f[i]]
                     /\ \A i, j \in 1..Len(r) :
                            i < j /\ Overlap(q, r[i]) = Overlap(q, r[j])
                                => f[i] < f[j] ]_vars

\* Three chunks were asked of a store in which four share a word with the
\* question: two chunks of overlap 2 come first, in store order, then the
\* first chunk of overlap 1.
C23_Witness ==
    /\ last.op = "find_relevant_documents"
    /\ last.k = 3
    /\ Len(documents) = 5
    /\ Len(Scored(last.question, documents)) = 4
    /\ last.result = << documents[3], documents[4], documents[1] >>
    /\ Overlap(last.question, documents[3]) = 2
    /\ Overlap(last.question, documents[4]) = 2
    /\ Overlap(last.question, documents[1]) = 1
    /\ Overlap(last.question, documents[2]) = 1

---------------------------------------------------------------------------
\* No chunk of the store holds a word of the question.
NoCommonWord(question) ==
    \A i \in 1..Len(documents) :
        Words(question) \cap Words(documents[i].page_content) = {}

Invoked(res) == \E i \in 1..Len(res.calls) : res.calls[i] = "invoke"

\* C24: when no chunk of the store holds a word of the question,
\* find_relevant_documents returns no chunk, and query on a store that has
\* chunks and a client returns the fixed no-relevant-information answer with
\* no supporting chunk and without invoking the LLM.
C24_NoCommonWordNoAnswer ==
    /\ [][ Ranks /\ NoCommonWord(last'.question) =>
               last'.result = << >> ]_vars
    /\ [][ Queries /\ NoCommonWord(last'.question)
               /\ llm # "None" /\ documents # << >> =>
               /\ ~last'.result.raised
               /\ last'.result.answer = NoRelevantAnswer
               /\ last'.result.source_documents = << >>
               /\ ~Invoked(last'.result) ]_vars

\* A store with chunks and a client was asked a question none of whose words
\* it holds.
C24_Witness ==
    /\ last.op = "query"
    /\ last.question = <<"z">>
    /\ Len(documents) = 5
    /\ llm = "client"
    /\ NoCommonWord(last.question)
    /\ last.result.answer = NoRelevantAnswer
    /\ last.result.calls = << "find_relevant_documents" >>

---------------------------------------------------------------------------
\* The places of the store whose chunk shares a word with the question.
Positive(question) ==
    { j \in 1..Len(documents) : Overlap(question, documents[j]) >= 1 }

AlphaBeta == <<"A", "l", "p", "h", "a", " ", "b", "e", "t", "a", ".">>

GammaDelta == <<"g", "a", "m", "m", "a", " ", "d", "e", "l", "t", "a">>

Beta == <<"b", "e", "t", "a">>

\* C25: with the overlap of a chunk being the number of distinct lower-case
\* words it shares with the question, find_relevant_documents returns only
\* chunks of overlap 1 or more, as many of them as there are up to k, and no
\* chunk left out has a higher overlap than a chunk returned.  On the store
\* built from "Alpha beta.\n\ngamma delta" the question "beta" gets the
\* chunk "Alpha beta.", of overlap 1, alone.
C25_RankReturnsHighestPositive ==
    /\ [][ Ranks =>
             LET r == last'.result
                 q == last'.question
                 n == Cardinality(Positive(q))
             IN  /\ \A i \in 1..Len(r) : Overlap(q, r[i]) >= 1
                 /\ Len(r) = IF n < last'.k THEN n ELSE last'.k
                 /\ \A j \in Positive(q) :
                        (\A i \in 1..Len(r) : r[i] # documents[j]) =>
                        \A i \in 1..Len(r) :
                            Overlap(q, documents[j]) <= Overlap(q, r[i])
          ]_vars
    /\ [][ Ranks /\ documents = ChunksOfBuild(<<"alpha.txt">>, FALSE, NoBrowser)
               /\ last'.question = Beta /\ last'.k >= 1 =>
               /\ Len(last'.result) = 1
               /\ last'.result[1].page_content = AlphaBeta
               /\ Overlap(Beta, last'.result[1]) = 1 ]_vars

\* The question "beta" was asked of the store built from
\* "Alpha beta.\n\ngamma delta".
C25_Witness ==
    /\ last.op = "find_relevant_documents"
    /\ last.question = Beta
    /\ last.k = 3
    /\ Len(documents) = 2
    /\ documents[1].page_content = AlphaBeta
    /\ documents[2].page_content = GammaDelta
    /\ last.result = << documents[1] >>

---------------------------------------------------------------------------
\* Every document of the list is a chunk of the store.
ChunksOfStore(docs) ==
    \A i \in 1..Len(docs) : \E j \in 1..Len(documents) : docs[i] = documents[j]

\* C26: process_documents applied to chunks that process_documents produced
\* (the store, or one chunk of it) gives exactly one chunk for each, with the
\* same content.
C26_RechunkingKeepsChunks ==
    [][ Processes /\ last'.docs # << >> /\ ChunksOfStore(last'.docs) =>
          /\ Len(last'.result) = Len(last'.docs)
          /\ \A i \in 1..Len(last'.docs) :
                 last'.result[i].page_content = last'.docs[i].page_content
      ]_vars

\* The chunk "a\nb" of the store, a paragraph of two lines, was chunked
\* again.
C26_Witness ==
    /\ last.op = "process_documents"
    /\ Len(documents) = 5
    /\ last.docs = << documents[4] >>
    /\ documents[4].page_content = <<"a", "\n", "b">>
    /\ Len(last.result) = 1
    /\ last.result[1].page_content = <<"a", "\n", "b">>

---------------------------------------------------------------------------
\* The paragraphs of the d-th document of a list, and the places <<d, p>> of
\* the paragraphs of the list that are not blank.
ParagraphsOf(docs, d) == SplitParagraphs(docs[d].page_content)

Places(docs) ==
    UNION { {d} \X (1..Len(ParagraphsOf(docs, d))) : d \in 1..Len(docs) }

NonBlank(docs) ==
    { pl \in Places(docs) :
        Strip(ParagraphsOf(docs, pl[1])[pl[2]]) # EmptyText }

Before(a, b) == a[1] < b[1] \/ (a[1] = b[1] /\ a[2] < b[2])

\* The place in the output of the chunk of the paragraph at place pl.
PlaceOf(docs, pl) ==
    1 + Cardinality({ o \in NonBlank(docs) : Before(o, pl) })

\* C27: process_documents gives one chunk for each paragraph that is not
\* blank, in the order of the documents and of their paragraphs; the chunk
\* holds the trimmed text of the paragraph, which is not empty, and the
\* metadata of its document with the position of the paragraph (from 0)
\* under "chunk"; blank paragraphs give no chunk and an empty list of
\* documents gives an empty list.
C27_OneChunkPerParagraph ==
    [][ Processes =>
          LET docs == last'.docs
              r == last'.result
          IN  /\ Len(r) = Cardinality(NonBlank(docs))
              /\ \A i \in 1..Len(r) : r[i].page_content # EmptyText
              /\ \A pl \in NonBlank(docs) :
                   LET chunk == r[PlaceOf(docs, pl)]
                       parent == docs[pl[1]].metadata
                   IN  /\ chunk.page_content =
                              Strip(ParagraphsOf(docs, pl[1])[pl[2]])
                       /\ DOMAIN chunk.metadata =
                              DOMAIN parent \cup {"chunk"}
                       /\ chunk.metadata["chunk"] = pl[2] - 1
                       /\ \A key \in DOMAIN parent \ {"chunk"} :
                              chunk.metadata[key] = parent[key]
              /\ (docs = << >> => r = << >>) ]_vars

\* Three files were chunked: the blank third paragraph of the first and the
\* blank second paragraph of the third gave no chunk, and the chunk after
\* the blank one keeps the position 2 of its paragraph.
C27_Witness ==
    /\ last.op = "process_documents"
    /\ last.docs = load_documents(<<"a.txt", "ab.txt", "n.txt">>, FALSE,
                                  NoBrowser)
    /\ Len(ParagraphsOf(last.docs, 1)) = 3
    /\ Len(ParagraphsOf(last.docs, 3)) = 3
    /\ Len(last.result) = 5
    /\ last.result[2] = [page_content |-> <<"b">>,
                         metadata |-> [source |-> "a.txt", chunk |-> 1]]
    /\ last.result[5] = [page_content |-> <<"c">>,
                         metadata |-> [source |-> "n.txt", chunk |-> 2]]

---------------------------------------------------------------------------
\* C28: query on a store that has no chunk or no client returns the fixed
\* not-initialized answer with an empty list of source documents, does not
\* raise, and calls neither find_relevant_documents nor the LLM; so does
\* the query of the vector store when no store is bound.
C28_NotInitializedAnswer ==
    /\ [][ Queries /\ (documents = << >> \/ llm = "None") =>
               /\ NotInitialized(last'.result)
               /\ last'.result.calls = << >> ]_vars
    /\ [][ last'.op = "RAGSystem.query" /\ vectorstore = "None" =>
               /\ NotInitialized(last'.result)
               /\ last'.result.calls = << >> ]_vars

\* A question with words was asked of a store that holds nothing.
C28_Witness ==
    /\ last.op = "query"
    /\ last.question = Beta
    /\ documents = << >>
    /\ llm = "None"
    /\ last.result.answer = NotInitializedAnswer
    /\ last.result.source_documents = << >>
    /\ last.result.calls = << >>

---------------------------------------------------------------------------
\* C29: query never lets an exception through: whatever the store holds and
\* whatever the LLM does, it returns an answer text and a list of source
\* documents; when the LLM call raises, the answer is the text that reports
\* the error and the list is empty.  The same holds for the query of the
\* vector store and its chain.
C29_QueryNeverRaises ==
    /\ [][ Queries \/ last'.op = "RAGSystem.query" =>
               ~last'.result.raised ]_vars
    /\ [][ Queries /\ Invoked(last'.result) =>
               \/ /\ last'.result.answer = QueryErrorAnswer
                  /\ last'.result.source_documents = << >>
               \/ /\ last'.result.answer \in RagAnswers
                  /\ last'.result.source_documents # << >> ]_vars
    /\ [][ (Queries \/ last'.op = "RAGSystem.query")
               /\ last'.result.answer = QueryErrorAnswer =>
               last'.result.source_documents = << >> ]_vars

\* The LLM call of a query raised: the caller got the text that reports the
\* error and no source document.
C29_Witness ==
    /\ last.op = "query"
    /\ documents # << >>
    /\ llm = "client"
    /\ last.result.calls = << "find_relevant_documents", "invoke" >>
    /\ ~last.result.raised
    /\ last.result.answer = QueryErrorAnswer
    /\ last.result.source_documents = << >>

---------------------------------------------------------------------------
\* The sources that cannot be opened, parsed or fetched, and the one of an
\* unsupported type.
Failing == { "missing.txt", "bad.pdf", "http://down" }

Unsupported == { "x.bin" }

RECURSIVE ConcatAll(_)
ConcatAll(lists) ==
    IF lists = << >> THEN << >> ELSE Head(lists) \o ConcatAll(Tail(lists))

\* C30: load_documents goes through every item of its input: an item that
\* fails (file not found, parse failure, failed or timed out request) or is
\* of an unsupported type gives no document and does not end the loop, and
\* the result is the documents of the items that loaded, in input order.
\* The same holds for the loader of the vector store, for which a URL is of
\* an unsupported type.
C30_LoadSkipsFailingItems ==
    /\ [][ Loads =>
             LET inputs == last'.inputs
                 each == [i \in 1..Len(inputs) |->
                              LoadOne(inputs[i], last'.use_js_rendering,
                                      last'.browser)]
             IN  /\ \A i \in 1..Len(inputs) :
                        inputs[i] \in Failing \cup Unsupported
                            <=> each[i] = << >>
                 /\ last'.result = ConcatAll(each) ]_vars
    /\ [][ last'.op = "RAGSystem.load_documents" =>
             LET inputs == last'.inputs
                 each == [i \in 1..Len(inputs) |->
                              RAGSystem_LoadOne(inputs[i])]
             IN  /\ \A i \in 1..Len(inputs) :
                        inputs[i] \in Failing \cup Unsupported
                            \/ is_url(inputs[i])
                            <=> each[i] = << >>
                 /\ last'.result = ConcatAll(each) ]_vars

\* Seven sources were loaded: a missing file, a PDF, a broken PDF, a URL
\* that does not answer, a URL that answers, a file of an unsupported type
\* and a Word file; the result is the documents of the second, the fifth and
\* the seventh, in that order.
C30_Witness ==
    /\ last.op = "load_documents"
    /\ last.inputs = <<"missing.txt", "p.pdf", "bad.pdf", "http://down",
                       "http://up", "x.bin", "d.docx">>
    /\ Len(last.result) = 3
    /\ last.result[1].metadata = [source |-> "p.pdf", page |-> 1]
    /\ last.result[2].metadata.source = "http://up"
    /\ last.result[3].metadata.source = "d.docx"

---------------------------------------------------------------------------
Took(calls, step) == \E i \in 1..Len(calls) : calls[i] = step

\* C31: when load_url is asked for JavaScript rendering and the browser
\* fails (selenium missing, driver not started, a page step raising, or the
\* closing raising), the plain request is made for the same URL and
\* load_url returns what the plain path returns for it: one document whose
\* metadata give the method "requests" when the request succeeds.  A driver
\* that was started is closed on every path.
C31_BrowserFailureFallsBack ==
    /\ [][ last'.op = "load_url" /\ last'.use_selenium
               /\ last'.browser # "ok" =>
               /\ Took(last'.calls, "requests.get")
               /\ last'.result = load_url(last'.url, FALSE, NoBrowser)
               /\ Readable(last'.url) =>
                      /\ Len(last'.result) = 1
                      /\ last'.result[1].metadata.source = last'.url
                      /\ last'.result[1].metadata.method = "requests"
          ]_vars
    /\ [][ last'.op = "load_url" /\ Took(last'.calls, "webdriver.Chrome") =>
               \E i, j \in 1..Len(last'.calls) :
                   /\ i < j
                   /\ last'.calls[i] = "webdriver.Chrome"
                   /\ last'.calls[j] = "driver.quit" ]_vars

\* A page step of the browser raised: the driver was closed, the plain
\* request was made and its document returned.
C31_Witness ==
    /\ last.op = "load_url"
    /\ last.url = "http://up"
    /\ last.use_selenium
    /\ last.browser = "page_error"
    /\ last.calls = << "webdriver.Chrome", "driver.quit", "requests.get" >>
    /\ Len(last.result) = 1
    /\ last.result[1].metadata.method = "requests"

---------------------------------------------------------------------------
\* C32: generate_response asks the knowledge base exactly when use_rag is
\* set and the store holds chunks at the time of the call; when it does not
\* ask, the system message it sends to the LLM is the stored prompt as it
\* is.
C32_AsksKnowledgeBaseWhenEnabledAndLoaded ==
    [][ Responds =>
          /\ last'.queried <=> (use_rag /\ documents # << >>)
          /\ ~last'.queried =>
                 last'.sent[1] = [role |-> "system", content |-> system_prompt]
      ]_vars

\* A turn with use_rag set on an empty store: the knowledge base was not
\* asked and the stored prompt was sent.
C32_Witness ==
    /\ last.op = "generate_response"
    /\ use_rag
    /\ documents = << >>
    /\ ~last.queried
    /\ last.sent[1].content = system_prompt

\* A turn with use_rag set on a store with chunks: the knowledge base was
\* asked.
C32_WitnessAsked ==
    /\ last.op = "generate_response"
    /\ use_rag
    /\ documents # << >>
    /\ last.queried
    /\ last.sent[1].content # system_prompt

---------------------------------------------------------------------------
\* The system message presents an answer of the knowledge base.
PresentsKnowledge(message) ==
    \E i \in 1..Len(message.content) : message.content[i] = KnowledgeIntro

\* C40: the system message sent to the LLM presents information of the
\* knowledge base only when query returned at least one source document: an
\* answer that reports an error, that nothing relevant was found, or that
\* the knowledge base is not initialized is not put into the prompt.
C40_KnowledgeOnlyWithSources ==
    [][ Responds /\ PresentsKnowledge(last'.sent[1]) =>
          /\ last'.rag_result.source_documents # << >>
          /\ last'.rag_result.answer \notin
                 { QueryErrorAnswer, NoRelevantAnswer, NotInitializedAnswer }
      ]_vars

\* The answer that nothing relevant was found is in the system message sent
\* to the LLM as information of the knowledge base.
C40_FailureAnswerInPrompt ==
    /\ last.op = "generate_response"
    /\ last.rag_result.source_documents = << >>
    /\ last.sent[1].content =
           PromptWithAnswer(system_prompt, NoRelevantAnswer)

---------------------------------------------------------------------------
\* C36: a build that reports success with a count n has replaced the store:
\* the store then holds exactly n chunks and n is at least 1, also when
\* documents were loaded and all their paragraphs are blank.
C36_SuccessMeansStoreReplaced ==
    [][ Builds /\ last'.success =>
          /\ last'.chunks >= 1
          /\ Len(documents') = last'.chunks ]_vars

\* A build of a file with blank paragraphs only reported success with the
\* count 0.
C36_SuccessWithoutChunks ==
    /\ last.op = "setup_rag_knowledge_base"
    /\ last.inputs = <<"blank.txt">>
    /\ last.success
    /\ last.loaded = 1
    /\ last.chunks = 0

---------------------------------------------------------------------------
\* C37: whenever the store holds chunks, the LLM client is bound: when
\* get_stats says "Ready", query does not return the not-initialized
\* answer.
C37_ClientBoundWhenReady ==
    /\ [](documents # << >> => llm # "None")
    /\ [][ Queries /\ get_stats.status = "Ready" =>
               last'.result.answer # NotInitializedAnswer ]_vars

\* The store holds chunks and no client is bound.
C37_ReadyWithoutClient ==
    /\ documents # << >>
    /\ llm = "None"
    /\ get_stats.status = "Ready"

---------------------------------------------------------------------------
\* The turns are a user turn, an assistant turn, a user turn, and so on.
Alternates(history) ==
    \A i \in 1..Len(history) :
        history[i].role = IF i % 2 = 1 THEN "user" ELSE "assistant"

\* C33: between calls of generate_response the history is user and
\* assistant turns in alternation, beginning with a user turn and ending
\* with an assistant turn; a call whose chat completion raises leaves the
\* history as it was before the call.
C33_HistoryAlternates ==
    /\ [](Alternates(conversation_history)
              /\ Len(conversation_history) % 2 = 0)
    /\ [][ Responds /\ last'.raised =>
               conversation_history' = conversation_history ]_vars

\* The chat completion raised and the user turn of the call is the last
\* turn of the history.
C33_UserTurnWithoutReply ==
    /\ last.op = "generate_response"
    /\ last.raised
    /\ conversation_history # << >>
    /\ conversation_history[Len(conversation_history)] =
           UserTurn(last.user_input)

---------------------------------------------------------------------------
\* A step of a callback that was connected to a recognizer older than the
\* one of the latest session.
EarlierCallbackStep == evt # NoEvt /\ evt.src < nrec /\ Callbacks

\* C34: a callback of the recognizer of an earlier session, running after a
\* later session was started, changes none of recognized_text, partial_text
\* and is_recognizing; so a stop of the later session, whose recognizer is
\* still running, does not skip the stop request.
C34_SessionsAreIsolated ==
    /\ [][ EarlierCallbackStep =>
               UNCHANGED << recognized_text, partial_text,
                            is_recognizing >> ]_vars
    /\ [][ pc = "idle" /\ pc' = "stop_read" =>
               ~(handle' = nrec /\ rec[nrec] = "running") ]_vars

\* The stop of the latest session skipped the stop request while its
\* recognizer is running.
C34_StopSkippedOnRunningSession ==
    /\ pc = "stop_read"
    /\ handle = nrec
    /\ nrec = 2
    /\ rec[nrec] = "running"
    /\ ~requested
    /\ caller \in AppCallers

StartReturned == pc = "start_construct" /\ pc' = "idle" /\ nrec' = nrec + 1

\* C35: when start_continuous_recognition returns, recognized_text and
\* partial_text are both empty, so that get_current_transcription computes
\* the empty text until an event of the new recognizer arrives, whatever
\* the earlier sessions left behind.
C35_StartReturnsEmptyTranscript ==
    [][ StartReturned =>
            /\ recognized_text' = EmptyText
            /\ partial_text' = EmptyText
            /\ CurrentTranscription(Strip(recognized_text'),
                                    Strip(partial_text')) = EmptyText ]_vars

\* A start in progress after the only earlier recognizer ended by a
\* cancellation: no event can still arrive, and the hypothesis of the
\* earlier session is still in partial_text when start returns.
C35_StartKeepsEarlierHypothesis ==
    /\ pc = "start_construct" /\ nrec = 1
    /\ rec[1] = "stopped" /\ evt = NoEvt
    /\ ~requested
    /\ partial_text # EmptyText
    /\ recognized_text = EmptyText

---------------------------------------------------------------------------
(***************************************************************************)
(* The page with its conversation (src/app.py): the recording handlers go  *)
(* on to answer the text stop_continuous_recognition returned, the chat    *)
(* input answers a typed message and the Reset Conversation button empties *)
(* the conversation.  The script of the page runs one handler at a time;   *)
(* the recognizer's thread runs beside it.                                 *)
(***************************************************************************)

\* What the user says while recording and what the user types.
SpokenTexts == { <<" ", "a">> }

TypedTexts == { <<"c">> }

\* Results of the speech synthesis (support_agent.py lines 260-266).
SynthesisReasons == { "SynthesizingAudioCompleted", "Canceled" }

\* text_to_speech, support_agent.py lines 252-266: raises when the
\* synthesis was canceled, returns the audio (or b"") otherwise
text_to_speech_raises(reason) == reason = "Canceled"

\* app.py lines 248-261 (361-376, 412-427): the handler reaches the append
\* of the assistant message
Answered(chat_raises, reason) ==
    ~chat_raises /\ ~text_to_speech_raises(reason)

\* app.py lines 234-238 and 256-261 (354-358 and 370-376, 405-409 and
\* 421-427): st.session_state.messages after the handler
session_messages_after(user_input, chat_raises, reply, reason) ==
    IF Answered(chat_raises, reason)
    THEN session_messages \o << UserTurn(user_input), AssistantTurn(reply) >>
    ELSE Append(session_messages, UserTurn(user_input))

\* A handler answers user_input: it appends the user message, calls
\* generate_response (support_agent.py lines 199-250) and text_to_speech,
\* and appends the assistant message; an exception of either call ends the
\* handler (app.py lines 271-272, 382-387, 433-438).
Respond(user_input, query_raises, invoke, chat_raises, reply, reason) ==
    /\ Len(conversation_history) + 2 <= MaxHistory
    /\ conversation_history' =
           IF chat_raises
           THEN Append(conversation_history, UserTurn(user_input))
           ELSE conversation_history
                    \o << UserTurn(user_input), AssistantTurn(reply) >>
    /\ last' = [op |-> "generate_response", raised |-> chat_raises,
                user_input |-> user_input,
                query_raised |-> query_raises /\ rag_is_used,
                queried |-> rag_is_used,
                rag_result |-> rag_result(user_input, query_raises, invoke),
                sent |-> messages(user_input, query_raises, invoke),
                returned |-> IF chat_raises THEN EmptyText ELSE reply]
    /\ session_messages' =
           session_messages_after(user_input, chat_raises, reply, reason)
    /\ UNCHANGED << system_prompt, use_rag, documents, llm >>
    /\ UNCHANGED vectorVars

\* app.py lines 226-273: the chat input
chat_input(user_input, query_raises, invoke, chat_raises, reply, reason) ==
    /\ pc = "idle"
    /\ Respond(user_input, query_raises, invoke, chat_raises, reply, reason)
    /\ UNCHANGED << speechVars, stop_calls, stop_texts, respond_texts >>

\* app.py lines 168-174: the Reset Conversation button
reset_button ==
    /\ pc = "idle"
    /\ conversation_history' = << >>
    /\ last' = [op |-> "reset_conversation",
                dropped |-> Len(conversation_history)]
    /\ session_messages' = << >>
    /\ UNCHANGED << system_prompt, use_rag, documents, llm >>
    /\ UNCHANGED << speechVars, vectorVars >>
    /\ UNCHANGED << stop_calls, stop_texts, respond_texts >>

\* The texts stop_continuous_recognition returned to the handlers, by the
\* recognizer it was given.
NoteStopText(h, text) ==
    IF h \in Recognizers /\ Len(stop_texts[h]) < 2
    THEN [stop_texts EXCEPT ![h] = Append(@, text)]
    ELSE stop_texts

\* The texts the recording handlers gave to generate_response.
NoteRespondText(h, text) ==
    IF h \in Recognizers /\ Len(respond_texts[h]) < 2
    THEN [respond_texts EXCEPT ![h] = Append(@, text)]
    ELSE respond_texts

\* a recording handler answering the text without the test of lines 350
\* and 401
StopReturnToHandler_answering_empty ==
    /\ pc = "stop_clear_partial"
    /\ caller \in AppCallers
    /\ partial_text' = EmptyText
    /\ requested' = FALSE
    /\ timedout' = FALSE
    /\ is_recording' = FALSE
    /\ recognizer' = NoHandle
    /\ elapsed' = NoTime
    /\ stop_texts' = NoteStopText(handle, result)
    /\ pc' = "respond"
    /\ UNCHANGED << handle, result >>
    /\ UNCHANGED << recognized_text, is_recognizing, recognition_done, rec,
                    nrec, evt, loaded, caller, delivered, appended,
                    exception >>
    /\ UNCHANGED << chatVars, vectorVars >>
    /\ UNCHANGED << session_messages, stop_calls, respond_texts >>

\* support_agent.py lines 125-126 returning to a recording handler of the
\* page; app.py lines 343-350 (394-401): the handler resets the recording
\* state and goes on with the text when it is not empty, and ends (lines
\* 379-380, 430-431) when it is
StopReturnToHandler ==
    /\ pc = "stop_clear_partial"
    /\ caller \in AppCallers
    /\ partial_text' = EmptyText
    /\ requested' = FALSE
    /\ timedout' = FALSE
    /\ is_recording' = FALSE
    /\ recognizer' = NoHandle
    /\ elapsed' = NoTime
    /\ stop_texts' = NoteStopText(handle, result)
    /\ IF result # EmptyText
       THEN /\ pc' = "respond"
            /\ UNCHANGED << handle, result >>
       ELSE /\ pc' = "idle"
            /\ handle' = NoHandle
            /\ result' = EmptyText
    /\ UNCHANGED << recognized_text, is_recognizing, recognition_done, rec,
                    nrec, evt, loaded, caller, delivered, appended,
                    exception >>
    /\ UNCHANGED << chatVars, vectorVars >>
    /\ UNCHANGED << session_messages, stop_calls, respond_texts >>

\* app.py lines 350-378 (401-429) with the exception paths of lines
\* 382-387 (433-438): the recording handler answers the recognized text
recording_respond(query_raises, invoke, chat_raises, reply, reason) ==
    /\ pc = "respond"
    /\ Respond(result, query_raises, invoke, chat_raises, reply, reason)
    /\ respond_texts' = NoteRespondText(handle, result)
    /\ pc' = "idle"
    /\ handle' = NoHandle
    /\ result' = EmptyText
    /\ UNCHANGED << recognized_text, partial_text, is_recognizing,
                    recognition_done, rec, nrec, evt, loaded, requested,
                    timedout, exception, caller, is_recording, recognizer,
                    elapsed, delivered, appended >>
    /\ UNCHANGED << stop_calls, stop_texts >>

NextPage ==
    \/ \E r \in Recognizers, t \in SpokenTexts :
            RaiseRecognized(r, "RecognizedSpeech", t)
    \/ \E r \in Recognizers : RaiseCanceled(r)
    \/ \E r \in Recognizers : RaiseSessionStopped(r)
    \/ recognized_cb_check
    \/ recognized_cb_store
    \/ canceled_cb
    \/ stopped_cb
    \/ StartReturn
    \/ StartRaise
    \/ StopWaitDone
    \/ StopWaitTimeout
    \/ StopRead
    \/ StopClearFinal
    \/ StopReturnToHandler
    \/ start_button
    \/ stop_button
    \/ auto_stop
    \/ Tick
    \/ \E query_raises \in {FALSE}, invoke \in RagAnswers,
          chat_raises \in BOOLEAN, reply \in Replies,
          reason \in SynthesisReasons :
            recording_respond(query_raises, invoke, chat_raises, reply,
                              reason)
    \/ \E user_input \in TypedTexts, query_raises \in {FALSE},
          invoke \in RagAnswers, chat_raises \in BOOLEAN,
          reply \in Replies, reason \in SynthesisReasons :
            chat_input(user_input, query_raises, invoke, chat_raises, reply,
                       reason)
    \/ reset_button

SpecPage == Init /\ [][NextPage]_vars

---------------------------------------------------------------------------
\* C38: after every completed event of the page (a typed message, the stop
\* of a recording by the button or by the auto-stop, a reset) the messages
\* the page shows and the agent's conversation_history hold the same
\* sequence of (role, content) pairs, also when generate_response or
\* text_to_speech raised.
C38_PageAndHistoryInStep ==
    pc = "idle" => session_messages = conversation_history

\* generate_response returned its reply and the handler has ended, and the
\* history holds one turn more than the page shows.
C38_ReplyMissingFromPage ==
    /\ pc = "idle"
    /\ last.op = "generate_response"
    /\ ~last.raised
    /\ conversation_history =
           Append(session_messages, AssistantTurn(last.returned))

NonEmptyText(text) == text # EmptyText

\* The recording handler that has the text of r and has not answered yet.
Answering(r) == pc = "respond" /\ handle = r

\* C39: the handlers of the page (Stop button, auto-stop, their exception
\* paths) call stop_continuous_recognition at most once for each recognizer
\* started, never for one not started; a text returned non-empty is given
\* to generate_response exactly once, as it is, when the handler has
\* ended, and an empty text is never given.
C39_RecordingConsumedOnce ==
    /\ [](\A r \in Recognizers :
            /\ stop_calls[r] <= 1
            /\ r > nrec => stop_calls[r] = 0
            /\ Len(stop_texts[r]) <= stop_calls[r]
            /\ respond_texts[r] =
                   IF Answering(r) THEN << >>
                   ELSE SelectSeq(stop_texts[r], NonEmptyText))
    /\ [][ pc = "respond" /\ pc' = "idle" =>
               /\ result # EmptyText
               /\ last'.op = "generate_response"
               /\ last'.user_input = result
               /\ respond_texts'[handle] = << result >> ]_vars

\* Two recordings were stopped: the first returned a text, which was
\* answered once; the second returned the empty text, which was not.
C39_Witness ==
    /\ pc = "idle"
    /\ stop_calls = [r \in Recognizers |-> 1]
    /\ stop_texts[1] = << <<"a">> >>
    /\ respond_texts[1] = << <<"a">> >>
    /\ stop_texts[2] = << EmptyText >>
    /\ respond_texts[2] = << >>

\* A recording stopped by the auto-stop whose answer raised, after one
\* whose stop request raised.
C39_WitnessErrorPaths ==
    /\ pc = "idle"
    /\ caller = "auto"
    /\ stop_calls = [r \in Recognizers |-> 1]
    /\ stop_texts[1] = << >>
    /\ respond_texts[2] = << <<"a">> >>
    /\ last.op = "generate_response"
    /\ last.raised

====
